---- MODULE Spec2Model ----
(***************************************************************************)
(* Model of rrmap: the WAD container reader (src/format/wad.rs), the udmf  *)
(* tokenizer and parser (src/udmf/de/mod.rs), the bridge to serde          *)
(* (src/udmf/de/serde_impl.rs) and the map reader (src/map.rs).            *)
(*                                                                         *)
(* Conventions                                                             *)
(*  - A byte is an integer 0..255; a Rust String or &str of the container  *)
(*    reader is the sequence of its UTF-8 bytes.                           *)
(*  - A usize produced by `i32 as usize` is kept as the signed 32-bit      *)
(*    value v: v >= 0 is the usize v, v < 0 is the usize 2^64 + v (sign    *)
(*    extension on a 64-bit target), a value above every source length.    *)
(*  - A Result is a record [ok, val, err]; an error is [kind, text].       *)
(*  - The text of the tokenizer is a sequence of one-character strings.    *)
(*  - The type a value is decoded into takes any scalar and, for a block,  *)
(*    asks for entries until next_key_seed answers None or a call fails.   *)
(*  - A rule of the grammar of the map reader takes the text and answers   *)
(*    PegFailed or PegMatched(rest, val); a HashMap is a function from its *)
(*    keys to its values.                                                  *)
(***************************************************************************)
EXTENDS Integers, Sequences, FiniteSets, TLC

VARIABLES
    source,      \* the bytes behind the reader R (never written)
    readerKind,  \* "cursor" (io::Cursor) or "file" (fs::File, as in main.rs)
    cursor,      \* the reader's position
    ioLog,       \* every seek and read issued to the reader, in order
    pc,          \* position inside Wad::from_reader
    header,      \* the Header read so far
    old_cursor,  \* the local old_cursor of the pass last entered
    lump_infos,  \* Wad.lump_infos
    lump_data,   \* Wad.lump_data
    wadResult,   \* what Wad::from_reader returned
    lookup,      \* the last Wad::lump(name) call and what it returned
    input,       \* Tokenizer.input, the text not yet consumed
    prevInput,   \* Tokenizer.input before the last call
    tokCall,     \* the last tokenizer or parser call
    tokResult,   \* what the last tokenizer or parser call returned
    decoded,     \* the entries the visitor got from the last block decoded
    doc,         \* the document Parser::new or Map::from_str was given, as items
    mapText,     \* the text preprocess or Map::from_str is given
    mapCall,     \* the last call of the map reader
    mapResult    \* what that call returned

wadVars == <<source, readerKind, cursor, ioLog, pc, header, old_cursor,
             lump_infos, lump_data, wadResult, lookup>>
tokVars == <<input, prevInput, tokCall, tokResult, decoded, doc>>
mapVars == <<mapText, mapCall, mapResult>>
vars == <<source, readerKind, cursor, ioLog, pc, header, old_cursor,
          lump_infos, lump_data, wadResult, lookup,
          input, prevInput, tokCall, tokResult, decoded, doc,
          mapText, mapCall, mapResult>>

(***************************************************************************)
(* Bounds of the model.                                                    *)
(***************************************************************************)
\* directory entries of a generated container
MaxLumps == 2
\* bytes of the data area of a generated container
DataLen == 3

(***************************************************************************)
(* Generic helpers.                                                        *)
(***************************************************************************)
Min(a, b) == IF a < b THEN a ELSE b

\* let v = ...; body(v)
With(v, Body(_)) == CHOOSE r \in { Body(x) : x \in {v} } : TRUE

Ok(v) == [ok |-> TRUE, val |-> v, err |-> [kind |-> "none", text |-> <<>>]]

Err(e) == [ok |-> FALSE, val |-> <<>>, err |-> e]

UnexpectedEof == [kind |-> "UnexpectedEof", text |-> <<>>]

Utf8Error == [kind |-> "Utf8", text |-> <<>>]

IoError == [kind |-> "Io", text |-> <<>>]

InvalidWadType(s) == [kind |-> "InvalidWadType", text |-> s]

\* a panic of the process (slice index out of range, capacity overflow)
Panic == [kind |-> "panic", text |-> <<>>]

(***************************************************************************)
(* UTF-8, as std::str::from_utf8 and String::from_utf8_lossy see it.       *)
(***************************************************************************)
IsCont(b) == b >= 128 /\ b <= 191

\* width announced by a lead byte, 0 for a byte that cannot start a char
Utf8Width(b) ==
    IF b < 128 THEN 1
    ELSE IF b >= 194 /\ b <= 223 THEN 2
    ELSE IF b >= 224 /\ b <= 239 THEN 3
    ELSE IF b >= 240 /\ b <= 244 THEN 4
    ELSE 0

\* the range the second byte of a multi-byte char must lie in
SecondOk(lead, b) ==
    IF lead = 224 THEN b >= 160 /\ b <= 191
    ELSE IF lead = 237 THEN b >= 128 /\ b <= 159
    ELSE IF lead = 240 THEN b >= 144 /\ b <= 191
    ELSE IF lead = 244 THEN b >= 128 /\ b <= 143
    ELSE IsCont(b)

\* number of bytes of bs, from index i, that form the valid start of one
\* char: the char's width when it is complete and valid
Utf8Good(bs, i) ==
    LET w == Utf8Width(bs[i])
        n == Len(bs)
    IN  IF w = 0 THEN 0
        ELSE IF w = 1 THEN 1
        ELSE IF i + 1 > n \/ ~SecondOk(bs[i], bs[i + 1]) THEN 1
        ELSE IF w = 2 THEN 2
        ELSE IF i + 2 > n \/ ~IsCont(bs[i + 2]) THEN 2
        ELSE IF w = 3 THEN 3
        ELSE IF i + 3 > n \/ ~IsCont(bs[i + 3]) THEN 3
        ELSE 4

\* is the char starting at index i of bs complete and valid
Utf8CharOk(bs, i) ==
    Utf8Width(bs[i]) # 0 /\ Utf8Good(bs, i) = Utf8Width(bs[i])

RECURSIVE Utf8ValidFrom(_, _)
Utf8ValidFrom(bs, i) ==
    IF i > Len(bs) THEN TRUE
    ELSE IF Utf8CharOk(bs, i) THEN Utf8ValidFrom(bs, i + Utf8Width(bs[i]))
    ELSE FALSE

\* std::str::from_utf8(bs).is_ok()
Utf8Valid(bs) == Utf8ValidFrom(bs, 1)

\* U+FFFD in UTF-8
Replacement == <<239, 191, 189>>

RECURSIVE LossyFrom(_, _)
LossyFrom(bs, i) ==
    IF i > Len(bs) THEN <<>>
    ELSE IF Utf8CharOk(bs, i)
         THEN SubSeq(bs, i, i + Utf8Width(bs[i]) - 1)
                  \o LossyFrom(bs, i + Utf8Width(bs[i]))
         ELSE Replacement
                  \o LossyFrom(bs, i + (IF Utf8Good(bs, i) = 0 THEN 1 ELSE Utf8Good(bs, i)))

\* String::from_utf8_lossy(bs).into_owned()
FromUtf8Lossy(bs) == LossyFrom(bs, 1)

(***************************************************************************)
(* The reader R: Read + Seek.  A reader state rs is [pos, log, pass,       *)
(* entry]: the position, the operations issued so far, and the pass and    *)
(* directory entry on whose behalf the next operation is issued.           *)
(***************************************************************************)
LogRec(rs, op, at, want, got) ==
    [op |-> op, at |-> at, want |-> want, got |-> got,
     pass |-> rs.pass, entry |-> rs.entry]

For(rs, pass, entry) == [rs EXCEPT !.pass = pass, !.entry = entry]

\* the bytes a read of n bytes at position pos obtains: all n, or those
\* left before the end of the source
Avail(pos, n) ==
    IF pos < 0 \/ pos >= Len(source) THEN <<>>
    ELSE SubSeq(source, pos + 1,
                IF n >= Len(source) - pos THEN Len(source) ELSE pos + n)

\* the reader after a read of n bytes that obtained got, and the bytes
ReadGot(rs, n, got) ==
    [rs  |-> [rs EXCEPT !.pos = rs.pos + Len(got),
                        !.log = Append(rs.log, LogRec(rs, "read", rs.pos, n, Len(got)))],
     buf |-> got]

\* r.read(&mut buf) with buf.len() = n
Read(rs, n) == ReadGot(rs, n, Avail(rs.pos, n))

\* r.seek(SeekFrom::Start(p)): a file rejects an offset above i64::MAX and
\* keeps its position; a cursor accepts every offset
SeekStart(rs, p) ==
    IF readerKind = "file" /\ p < 0
    THEN [rs  |-> [rs EXCEPT !.log = Append(rs.log, LogRec(rs, "seek_failed", p, 0, 0))],
          res |-> Err(IoError)]
    ELSE [rs  |-> [rs EXCEPT !.pos = p,
                             !.log = Append(rs.log, LogRec(rs, "seek", p, 0, 0))],
          res |-> Ok(p)]

\* r.seek(SeekFrom::Current(0))
SeekCurrent(rs) ==
    [rs  |-> [rs EXCEPT !.log = Append(rs.log, LogRec(rs, "tell", rs.pos, 0, 0))],
     res |-> Ok(rs.pos)]

(***************************************************************************)
(* Byte-level primitives.                                                  *)
(***************************************************************************)
\* i32::from_le_bytes
FromLeBytes(b) ==
    b[1] + 256 * b[2] + 65536 * b[3]
        + 16777216 * (IF b[4] >= 128 THEN b[4] - 256 ELSE b[4])

\* the ? operator on a failed step r: the error is returned
Fail(r) == [rs |-> r.rs, res |-> Err(r.res.err)]

\* let v = r?; body(r)
Try(r, Body(_)) == IF r.res.ok THEN Body(r) ELSE Fail(r)

\* <i32 as ByteRead>::read
I32Read(rs) ==
    With(Read(rs, 4), LAMBDA r :
        [rs  |-> r.rs,
         res |-> IF Len(r.buf) = 4 THEN Ok(FromLeBytes(r.buf)) ELSE Err(UnexpectedEof)])

\* bytes.iter().position(|&ch| ch == 0x0): 0 stands for None
NullPosition(bytes) ==
    IF \E i \in 1..Len(bytes) : bytes[i] = 0
    THEN CHOOSE i \in 1..Len(bytes) :
             bytes[i] = 0 /\ \A j \in 1..(i - 1) : bytes[j] # 0
    ELSE 0

\* mutant: strips the trailing nulls only
RECURSIVE TrimNull_TrailingOnly(_)
TrimNull_TrailingOnly(bytes) ==
    IF bytes # <<>> /\ bytes[Len(bytes)] = 0
    THEN TrimNull_TrailingOnly(SubSeq(bytes, 1, Len(bytes) - 1))
    ELSE bytes

\* the slice of bytes read_string converts: up to the first null
TrimNull(bytes) ==
    IF NullPosition(bytes) = 0 THEN bytes
    ELSE SubSeq(bytes, 1, NullPosition(bytes) - 1)

\* read_string::<N, _>
ReadString(rs, N) ==
    With(Read(rs, N), LAMBDA r :
        [rs  |-> r.rs,
         res |-> IF Len(r.buf) = N
                 THEN IF Utf8Valid(TrimNull(r.buf))
                      THEN Ok(TrimNull(r.buf))
                      ELSE Err(Utf8Error)
                 ELSE Err(UnexpectedEof)])

(***************************************************************************)
(* Header                                                                  *)
(***************************************************************************)
IWAD == <<73, 87, 65, 68>>

PWAD == <<80, 87, 65, 68>>

\* mutant: the tag is matched whatever its case
WadTypeOf_CaseBlind(ident) ==
    IF ident = IWAD \/ ident = <<105, 119, 97, 100>> THEN "Iwad"
    ELSE IF ident = PWAD \/ ident = <<112, 119, 97, 100>> THEN "Pwad"
    ELSE "none"

\* the match on the tag bytes: the WadType, or "none"
WadTypeOf(ident) ==
    IF ident = IWAD THEN "Iwad"
    ELSE IF ident = PWAD THEN "Pwad"
    ELSE "none"

\* <Header as ByteRead>::read
HeaderReadOp(rs) ==
    With(Read(rs, 4), LAMBDA r0 :
        IF Len(r0.buf) < 4 THEN [rs |-> r0.rs, res |-> Err(UnexpectedEof)]
        ELSE IF WadTypeOf(r0.buf) = "none"
             THEN [rs |-> r0.rs, res |-> Err(InvalidWadType(FromUtf8Lossy(r0.buf)))]
        ELSE Try(I32Read(r0.rs), LAMBDA r1 :
             Try(I32Read(r1.rs), LAMBDA r2 :
                 [rs  |-> r2.rs,
                  res |-> Ok([ident |-> WadTypeOf(r0.buf),
                              num_lumps |-> r1.res.val,
                              info_table_offset |-> r2.res.val])])))

(***************************************************************************)
(* LumpInfo                                                                *)
(***************************************************************************)
\* <LumpInfo as ByteRead>::read
LumpInfoRead(rs) ==
    Try(I32Read(rs), LAMBDA r1 :
    Try(I32Read(r1.rs), LAMBDA r2 :
    Try(ReadString(r2.rs, 8), LAMBDA r3 :
        [rs  |-> r3.rs,
         res |-> Ok([file_pos |-> r1.res.val,
                     size |-> r2.res.val,
                     name |-> r3.res.val])])))

\* (0..n).map(|_| LumpInfo::read(&mut r)).collect::<Result<Vec<_>, _>>():
\* stops at the first error; n < 0 is a count above every source length
RECURSIVE CollectInfos(_, _, _)
CollectInfos(rs, n, acc) ==
    IF n = 0 THEN [rs |-> rs, res |-> Ok(acc)]
    ELSE Try(LumpInfoRead(For(rs, "infos", Len(acc) + 1)), LAMBDA r :
             CollectInfos(r.rs, n - 1, Append(acc, r.res.val)))

\* the position the directory pass seeks to before reading
DirSeekTarget(hdr) == hdr.info_table_offset

\* what a pass returns: the reader, the result, and its local old_cursor
PassOut(rs, res, old) == [rs |-> rs, res |-> res, old |-> old]

\* mutant: a failed entry returns at once, before the cursor is reset
LumpInfoReadOfOp_EarlyReturn(rs0, hdr) ==
    With(SeekCurrent(For(rs0, "infos", 0)), LAMBDA t :
    With(SeekStart(t.rs, DirSeekTarget(hdr)), LAMBDA s :
        IF ~s.res.ok THEN PassOut(s.rs, Err(s.res.err), t.res.val)
        ELSE With(CollectInfos(s.rs, hdr.num_lumps, <<>>), LAMBDA c :
             With(SeekStart(For(c.rs, "infos", 0), t.res.val), LAMBDA b :
                 IF ~c.res.ok THEN PassOut(c.rs, c.res, t.res.val)
                 ELSE PassOut(b.rs, c.res, t.res.val)))))

\* LumpInfo::read_of
LumpInfoReadOfOp(rs0, hdr) ==
    With(SeekCurrent(For(rs0, "infos", 0)), LAMBDA t :
    With(SeekStart(t.rs, DirSeekTarget(hdr)), LAMBDA s :
        IF ~s.res.ok THEN PassOut(s.rs, Err(s.res.err), t.res.val)
        ELSE With(CollectInfos(s.rs, hdr.num_lumps, <<>>), LAMBDA c :
             With(SeekStart(For(c.rs, "infos", 0), t.res.val), LAMBDA b :
                 IF ~b.res.ok THEN PassOut(b.rs, Err(b.res.err), t.res.val)
                 ELSE PassOut(b.rs, c.res, t.res.val)))))

(***************************************************************************)
(* LumpData                                                                *)
(***************************************************************************)
\* mutant: every entry is sought and read
HasData_Always(lump_info) == TRUE

\* the test that sends an entry to the read branch: size is a usize
HasData(lump_info) == lump_info.size # 0

\* mutant: a short read is accepted
ReadComplete_Lenient(got, want) == got <= want

\* is a read that obtained `got` bytes of `want` accepted as complete
ReadComplete(got, want) == got = want

\* buf after r.read(&mut buf): zero-initialised, overwritten by what came
ZeroFilled(got, want) == [i \in 1..want |-> IF i <= Len(got) THEN got[i] ELSE 0]

\* the read branch once the reader is where the data is read from: the
\* buffer is allocated (a size above isize::MAX is a capacity overflow),
\* then filled
LumpDataFill(rs, lump_info) ==
    IF lump_info.size < 0 THEN [rs |-> rs, res |-> Err(Panic)]
    ELSE With(Read(rs, lump_info.size), LAMBDA r :
             IF ReadComplete(Len(r.buf), lump_info.size)
             THEN [rs |-> r.rs, res |-> Ok(ZeroFilled(r.buf, lump_info.size))]
             ELSE [rs |-> r.rs, res |-> Err(UnexpectedEof)])

\* mutant: the data is read at the cursor, without seeking to the entry
LumpDataOne_NoSeek(rs, lump_info) ==
    IF HasData(lump_info)
    THEN LumpDataFill(rs, lump_info)
    ELSE [rs |-> rs, res |-> Ok(<<>>)]

\* the closure of LumpData::read_of for one directory entry
LumpDataOne(rs, lump_info) ==
    IF HasData(lump_info)
    THEN Try(SeekStart(rs, lump_info.file_pos), LAMBDA s :
             LumpDataFill(s.rs, lump_info))
    ELSE [rs |-> rs, res |-> Ok(<<>>)]

\* mutant: an entry without data adds nothing to the list
RECURSIVE CollectData_SkipsVirtual(_, _, _, _)
CollectData_SkipsVirtual(rs, infos, acc, i) ==
    IF i > Len(infos) THEN [rs |-> rs, res |-> Ok(acc)]
    ELSE Try(LumpDataOne(For(rs, "data", i), infos[i]), LAMBDA r :
             CollectData_SkipsVirtual(r.rs, infos,
                 IF HasData(infos[i]) THEN Append(acc, r.res.val) ELSE acc, i + 1))

CollectData_NoVirtual(rs, infos, acc) == CollectData_SkipsVirtual(rs, infos, acc, 1)

\* lump_infos.iter().map(closure).collect::<Result<Vec<_>, _>>()
RECURSIVE CollectData(_, _, _)
CollectData(rs, infos, acc) ==
    IF Len(acc) = Len(infos) THEN [rs |-> rs, res |-> Ok(acc)]
    ELSE Try(LumpDataOne(For(rs, "data", Len(acc) + 1), infos[Len(acc) + 1]), LAMBDA r :
             CollectData(r.rs, infos, Append(acc, r.res.val)))

\* LumpData::read_of; a panic unwinds past the reset of the cursor
LumpDataReadOfOp(rs0, infos) ==
    With(SeekCurrent(For(rs0, "data", 0)), LAMBDA t :
    With(CollectData(t.rs, infos, <<>>), LAMBDA c :
        IF ~c.res.ok /\ c.res.err = Panic THEN PassOut(c.rs, c.res, t.res.val)
        ELSE With(SeekStart(For(c.rs, "data", 0), t.res.val), LAMBDA b :
                 IF ~b.res.ok THEN PassOut(b.rs, Err(b.res.err), t.res.val)
                 ELSE PassOut(b.rs, c.res, t.res.val))))

(***************************************************************************)
(* Wad queries                                                             *)
(***************************************************************************)
\* Wad::lumps: the directory zipped with the data
Lumps(infos, data) ==
    [i \in 1..Min(Len(infos), Len(data)) |->
        [lump_info |-> infos[i], lump_data |-> data[i]]]

\* mutant: the search keeps the last match
FindIndex_Last(ls, name) ==
    IF \E i \in 1..Len(ls) : ls[i].lump_info.name = name
    THEN CHOOSE i \in 1..Len(ls) :
             /\ ls[i].lump_info.name = name
             /\ \A j \in (i + 1)..Len(ls) : ls[j].lump_info.name # name
    ELSE 0

\* Iterator::find: index of the element a search for name stops at, 0 for None
FindIndex(ls, name) ==
    IF \E i \in 1..Len(ls) : ls[i].lump_info.name = name
    THEN CHOOSE i \in 1..Len(ls) :
             /\ ls[i].lump_info.name = name
             /\ \A j \in 1..(i - 1) : ls[j].lump_info.name # name
    ELSE 0

NoLump == [some |-> FALSE, lump_info |-> <<>>, lump_data |-> <<>>]

\* Wad::lump
WadLump(infos, data, name) ==
    LET ls == Lumps(infos, data)
        i  == FindIndex(ls, name)
    IN  IF i = 0 THEN NoLump
        ELSE [some |-> TRUE, lump_info |-> ls[i].lump_info, lump_data |-> ls[i].lump_data]

(***************************************************************************)
(* The byte sources the reader is run on.  A source is a header, a         *)
(* directory and a data area, laid out in either order and then cut short  *)
(* at any length; its directory entries are drawn from EntryPool.          *)
(***************************************************************************)
Byte(v, k) ==
    IF k = 0 THEN v % 256
    ELSE IF k = 1 THEN (v \div 256) % 256
    ELSE IF k = 2 THEN (v \div 65536) % 256
    ELSE (v \div 16777216) % 256

\* i32::to_le_bytes, the inverse of what the reader decodes
LeBytes(v) ==
    IF v >= 0 THEN [k \in 1..4 |-> Byte(v, k - 1)]
    ELSE [k \in 1..4 |-> 255 - Byte(-(v + 1), k - 1)]

DataArea == [j \in 1..DataLen |-> 96 + j]

\* an offset beyond the end of every generated source
FarOffset == 30000

NameTextmap == <<84, 69, 88, 84, 77, 65, 80, 0>>

NameANulB == <<65, 0, 66, 0, 0, 0, 0, 0>>

NameFull == <<65, 66, 67, 68, 69, 70, 71, 72>>

NameEmpty == <<0, 88, 89, 90, 0, 0, 0, 0>>

NameAccent == <<195, 169, 0, 0, 0, 0, 0, 0>>

NameBad == <<255, 65, 0, 0, 0, 0, 0, 0>>

\* entry templates: rel = TRUE places pos relative to the data area
EntryPool ==
    { [rel |-> TRUE,  pos |-> 0,           size |-> 2,  name |-> NameTextmap],
      [rel |-> TRUE,  pos |-> 1,           size |-> 2,  name |-> NameTextmap],
      [rel |-> FALSE, pos |-> FarOffset,   size |-> 0,  name |-> NameANulB],
      [rel |-> TRUE,  pos |-> DataLen - 1, size |-> 2,  name |-> NameFull],
      [rel |-> TRUE,  pos |-> 0,           size |-> 1,  name |-> NameEmpty],
      [rel |-> FALSE, pos |-> -1,          size |-> 0,  name |-> NameAccent],
      [rel |-> TRUE,  pos |-> 0,           size |-> 1,  name |-> NameBad],
      [rel |-> TRUE,  pos |-> 0,           size |-> -1, name |-> NameTextmap] }

Directories(n) == UNION { [1..k -> EntryPool] : k \in 0..n }

RECURSIVE Flatten(_)
Flatten(ss) == IF ss = <<>> THEN <<>> ELSE Head(ss) \o Flatten(Tail(ss))

EntryBytes(e, dataOff) ==
    LeBytes(IF e.rel THEN dataOff + e.pos ELSE e.pos) \o LeBytes(e.size) \o e.name

\* the uncut source: dirFirst puts the directory right after the header,
\* otherwise the data area comes first; declared and dirOff are the two
\* header integers
FullSource(tag, dirFirst, declared, dirOff, entries) ==
    LET k       == Len(entries)
        dataOff == IF dirFirst THEN 12 + 16 * k ELSE 12
        dir     == Flatten([i \in 1..k |-> EntryBytes(entries[i], dataOff)])
    IN  tag \o LeBytes(declared) \o LeBytes(dirOff)
            \o (IF dirFirst THEN dir \o DataArea ELSE DataArea \o dir)

\* where the directory of FullSource really starts
TrueDirOff(dirFirst) == IF dirFirst THEN 12 ELSE 12 + DataLen

GoodTags == {IWAD, PWAD}

BadTags == { <<74, 87, 65, 68>>, <<105, 119, 97, 100>>, <<73, 87, 65, 255>>,
             <<80, 195, 169, 68>>, <<226, 130, 65, 68>> }

\* bytes is cut short at some length
IsCutOf(bytes, full) == \E n \in 0..Len(full) : bytes = SubSeq(full, 1, n)

\* bytes is a well-formed container cut short at some length
CutSource(bytes) ==
    \E tag \in GoodTags, df \in BOOLEAN, es \in Directories(MaxLumps) :
        IsCutOf(bytes, FullSource(tag, df, Len(es), TrueDirOff(df), es))

\* bytes is a container with an unknown tag, cut short at some length
BadTagSource(bytes) ==
    \E tag \in BadTags, es \in Directories(1) :
        IsCutOf(bytes, FullSource(tag, TRUE, Len(es), 12, es))

\* bytes is a container whose header integers do not describe its directory
OddHeaderSource(bytes) ==
    \E df \in BOOLEAN, es \in Directories(MaxLumps) :
        \/ bytes = FullSource(IWAD, df, Len(es) + 1, TrueDirOff(df), es)
        \/ bytes = FullSource(IWAD, df, -1, TrueDirOff(df), es)
        \/ bytes = FullSource(IWAD, df, Len(es), -1, es)
        \/ bytes = FullSource(IWAD, df, Len(es), FarOffset, es)

\* names Wad::lump is asked for
QueryNames ==
    { TrimNull(NameTextmap), TrimNull(NameANulB), TrimNull(NameFull),
      TrimNull(NameEmpty), TrimNull(NameAccent), <<78, 79>> }

NoHeader == [ident |-> "none", num_lumps |-> 0, info_table_offset |-> 0]

Pending == Err([kind |-> "pending", text |-> <<>>])

NoLookup == [called |-> FALSE, name |-> <<>>, res |-> NoLump]

\* no document: the text is not built from items
NoDoc == [gap |-> <<>>, items |-> <<>>]

NoTokResult ==
    [ok |-> FALSE,
     val |-> [kind |-> "none", text |-> <<>>, num |-> 0, neg |-> FALSE],
     err |-> [kind |-> "none", text |-> <<>>]]

\* the map reader before its first call
MapIdle ==
    /\ mapText = <<>>
    /\ mapCall = "none"
    /\ mapResult = Pending

TokIdle ==
    /\ input = <<>>
    /\ prevInput = <<>>
    /\ tokCall = "none"
    /\ tokResult = NoTokResult
    /\ decoded = <<>>
    /\ doc = NoDoc

WadInit ==
    /\ \/ /\ readerKind = "cursor"
          /\ \/ CutSource(source)
             \/ BadTagSource(source)
             \/ OddHeaderSource(source)
       \/ /\ readerKind = "file"
          /\ OddHeaderSource(source)
    /\ cursor = 0
    /\ ioLog = <<>>
    /\ pc = "start"
    /\ header = NoHeader
    /\ old_cursor = 0
    /\ lump_infos = <<>>
    /\ lump_data = <<>>
    /\ wadResult = Pending
    /\ lookup = NoLookup
    /\ TokIdle
    /\ MapIdle

\* the reader as the next call finds it
Reader == [pos |-> cursor, log |-> ioLog, pass |-> "header", entry |-> 0]

\* the state after Header::read returned r
HeaderReturns(r) ==
    /\ cursor' = r.rs.pos
    /\ ioLog' = r.rs.log
    /\ IF r.res.ok
       THEN /\ header' = r.res.val
            /\ pc' = "header_read"
            /\ UNCHANGED wadResult
       ELSE /\ pc' = "err_header"
            /\ wadResult' = r.res
            /\ UNCHANGED header

\* Wad::from_reader, line 32: Header::read(&mut r)?
HeaderRead ==
    /\ pc = "start"
    /\ HeaderReturns(HeaderReadOp(Reader))
    /\ UNCHANGED <<source, readerKind, old_cursor, lump_infos, lump_data, lookup>>
    /\ UNCHANGED <<tokVars, mapVars>>

\* the state after LumpInfo::read_of returned r
LumpInfoReturns(r) ==
    /\ cursor' = r.rs.pos
    /\ ioLog' = r.rs.log
    /\ old_cursor' = r.old
    /\ IF r.res.ok
       THEN /\ lump_infos' = r.res.val
            /\ pc' = "infos_read"
            /\ UNCHANGED wadResult
       ELSE /\ pc' = "err_infos"
            /\ wadResult' = r.res
            /\ UNCHANGED lump_infos

\* Wad::from_reader, line 34: LumpInfo::read_of(&mut r, &header)?
LumpInfoReadOf ==
    /\ pc = "header_read"
    /\ LumpInfoReturns(LumpInfoReadOfOp(Reader, header))
    /\ UNCHANGED <<source, readerKind, header, lump_data, lookup>>
    /\ UNCHANGED <<tokVars, mapVars>>

\* the state after LumpData::read_of returned r, or panicked
LumpDataReturns(r) ==
    /\ cursor' = r.rs.pos
    /\ ioLog' = r.rs.log
    /\ old_cursor' = r.old
    /\ IF r.res.ok
       THEN /\ lump_data' = r.res.val
            /\ wadResult' = Ok(<<>>)
            /\ pc' = "done"
       ELSE /\ pc' = IF r.res.err = Panic THEN "aborted" ELSE "err_data"
            /\ wadResult' = r.res
            /\ UNCHANGED lump_data

\* Wad::from_reader, lines 35-41: LumpData::read_of(&mut r, &lump_infos)?
\* and the construction of the Wad
LumpDataReadOf ==
    /\ pc = "infos_read"
    /\ LumpDataReturns(LumpDataReadOfOp(Reader, lump_infos))
    /\ UNCHANGED <<source, readerKind, header, lump_infos, lookup>>
    /\ UNCHANGED <<tokVars, mapVars>>

\* Wad::lump(name) on the Wad that from_reader returned
Lump ==
    /\ pc = "done"
    /\ \E name \in QueryNames :
         lookup' = [called |-> TRUE, name |-> name,
                    res |-> WadLump(lump_infos, lump_data, name)]
    /\ UNCHANGED <<source, readerKind, cursor, ioLog, pc, header, old_cursor,
                   lump_infos, lump_data, wadResult>>
    /\ UNCHANGED <<tokVars, mapVars>>

WadNext == HeaderRead \/ LumpInfoReadOf \/ LumpDataReadOf \/ Lump

WadSpec == WadInit /\ [][WadNext]_vars

(***************************************************************************)
(* The udmf tokenizer (src/udmf/de/mod.rs).  A &str is the sequence of its *)
(* chars; every slice the code takes starts and ends between two chars, so *)
(* offsets are counted in chars.                                           *)
(***************************************************************************)
\* longest text TokInit hands to the tokenizer
MaxLen == 6

Quote == "\""

Backslash == "\\"

Digits == {"0", "1", "2", "3", "4", "5", "6", "7", "8", "9"}

\* 'A'..='Z' | 'a'..='z' | '_'
IdentStart ==
    { "A", "B", "C", "D", "E", "F", "G", "H", "I", "J", "K", "L", "M",
      "N", "O", "P", "Q", "R", "S", "T", "U", "V", "W", "X", "Y", "Z",
      "a", "b", "c", "d", "e", "f", "g", "h", "i", "j", "k", "l", "m",
      "n", "o", "p", "q", "r", "s", "t", "u", "v", "w", "x", "y", "z", "_" }

\* 'A'..='Z' | 'a'..='z' | '0'..='9' | '_'
IdentChars == IdentStart \cup Digits

\* char::is_ascii_whitespace
AsciiWhitespace == {" ", "\t", "\n", "\f", "\r"}

\* the chars that end a keyword
KeywordEnd == {"^", "{", "}", "(", ")", ";", "\"", "'", "\n", "\t", " "}

\* &s[a..b]
Slice(s, a, b) == SubSeq(s, a + 1, b)

\* &s[a..]
SliceFrom(s, a) == SubSeq(s, a + 1, Len(s))

\* s.find(a char of set): offset of the first one, -1 for None
FindIn(s, set) ==
    IF \E i \in 1..Len(s) : s[i] \in set
    THEN (CHOOSE i \in 1..Len(s) : s[i] \in set /\ \A j \in 1..(i - 1) : s[j] \notin set) - 1
    ELSE -1

\* s.find(a char not of set): offset of the first one, -1 for None
FindNotIn(s, set) ==
    IF \E i \in 1..Len(s) : s[i] \notin set
    THEN (CHOOSE i \in 1..Len(s) : s[i] \notin set /\ \A j \in 1..(i - 1) : s[j] \in set) - 1
    ELSE -1

\* .unwrap_or_else(|| s.len())
OrLen(idx, s) == IF idx = -1 THEN Len(s) ELSE idx

\* a Value or a Token: the variant, its text, its number, its sign
NoVal == [kind |-> "none", text |-> <<>>, num |-> 0, neg |-> FALSE]

ValueString(s) == [kind |-> "String", text |-> s, num |-> 0, neg |-> FALSE]

ValueBoolean(b) == [kind |-> "Boolean", text |-> <<>>, num |-> IF b THEN 1 ELSE 0, neg |-> FALSE]

ValueInteger(n) == [kind |-> "Integer", text |-> <<>>, num |-> n, neg |-> n < 0]

\* An f32 is kept as the decimal it is nearest to: digits are its
\* significant decimal digits (no leading or trailing zero, none for 0) and
\* num the power of ten of the last digit; rounding to 24 bits is not
\* modelled, overflow to infinity and underflow to zero are (F32Of).
ValueFloat(neg, digits, exp) == [kind |-> "Float", text |-> digits, num |-> exp, neg |-> neg]

\* f32::INFINITY, negated when neg
ValueFloatInf(neg) == [kind |-> "Float", text |-> <<"inf">>, num |-> 0, neg |-> neg]

\* f32::NAN
ValueFloatNaN == [kind |-> "Float", text |-> <<"NaN">>, num |-> 0, neg |-> FALSE]

\* Value::Nil
ValueNil == [kind |-> "Nil", text |-> <<>>, num |-> 0, neg |-> FALSE]

TokenIdent(s) == [kind |-> "Ident", text |-> s, num |-> 0, neg |-> FALSE]

TokenOf(kind) == [kind |-> kind, text |-> <<>>, num |-> 0, neg |-> FALSE]

\* what a tokenizer call leaves: the remaining input and the result
TokOut(inp, res) == [input |-> inp, res |-> res]

TokOk(v) == [ok |-> TRUE, val |-> v, err |-> [kind |-> "none", text |-> <<>>]]

TokErr(kind, text) == [ok |-> FALSE, val |-> NoVal, err |-> [kind |-> kind, text |-> text]]

ErrEof == TokErr("Eof", <<>>)

ErrUnquotedString == TokErr("UnquotedString", <<>>)

ErrUnexpectedChar(ch) == TokErr("UnexpectedChar", <<ch>>)

ErrInvalidKeyword(s) == TokErr("InvalidKeyword", s)

\* a panic: the process ends inside the call
TokPanic == TokErr("panic", <<>>)

\* Tokenizer::skip_whitespace
SkipWhitespace(inp) ==
    IF FindNotIn(inp, AsciiWhitespace) = -1 THEN <<>>
    ELSE SliceFrom(inp, FindNotIn(inp, AsciiWhitespace))

\* the kind of error the number parsers map a failed parse to
FirstCharError(inp) == IF inp = <<>> THEN ErrEof ELSE ErrUnexpectedChar(inp[1])

\* mutant: every escape loses its backslash
RECURSIVE unescape_string_DropsAll(_)
unescape_string_DropsAll(s) ==
    IF FindIn(s, {Backslash}) = -1 THEN s
    ELSE LET next == FindIn(s, {Backslash})
         IN  Slice(s, 0, next)
                 \o (IF next + 1 >= Len(s) THEN <<>>
                     ELSE <<s[next + 2]>> \o unescape_string_DropsAll(SliceFrom(s, next + 2)))

\* unescape_string
RECURSIVE unescape_string(_)
unescape_string(s) ==
    IF FindIn(s, {Backslash}) = -1 THEN s
    ELSE LET next == FindIn(s, {Backslash})
         IN  Slice(s, 0, next)
                 \o (IF next + 1 >= Len(s) THEN <<>>
                     ELSE IF s[next + 2] = Quote
                          THEN <<Quote>> \o unescape_string(SliceFrom(s, next + 2))
                          ELSE <<Backslash, s[next + 2]>>
                                   \o unescape_string(SliceFrom(s, next + 2)))

\* the while loop of next_value's string branch, from offset end: the
\* offset it leaves in end, or -1 when it returns the unquoted-string error
RECURSIVE ScanString(_, _)
ScanString(inp, end) ==
    IF end >= Len(inp) THEN end
    ELSE LET idx == FindIn(SliceFrom(inp, end), {Quote})
         IN  IF idx = -1 THEN -1
             ELSE IF idx > 0 /\ inp[end + idx] = Backslash
                  THEN ScanString(inp, end + idx + 1)
                  ELSE end + idx

\* next_value's string branch after the opening quote is eaten; taking
\* &input[(end + 1)..] past the end of the input panics
StringAfterQuote(inp, end) ==
    IF end = -1 THEN TokOut(inp, ErrUnquotedString)
    ELSE IF end + 1 > Len(inp) THEN TokOut(inp, TokPanic)
    ELSE TokOut(SliceFrom(inp, end + 1), TokOk(ValueString(unescape_string(Slice(inp, 0, end)))))

ReadStringValue(inp) == StringAfterQuote(SliceFrom(inp, 1), ScanString(SliceFrom(inp, 1), 0))

\* i32::MAX
I32Max == 2147483647

\* str::parse::<i32> of a run of digits: -1 when the run is empty or the
\* value does not fit
RECURSIVE ParseDigits(_, _)
ParseDigits(ds, acc) ==
    IF ds = <<>> THEN acc
    ELSE LET d == CHOOSE n \in 0..9 : ToString(n) = ds[1]
         IN  IF acc > (I32Max - d) \div 10 THEN -1
             ELSE ParseDigits(Tail(ds), 10 * acc + d)

ParseI32(ds) == IF ds = <<>> THEN -1 ELSE ParseDigits(ds, 0)

\* read_number's integer branch: inp is the input after the sign, end the
\* length of its digit run
ReadInteger(neg, inp, end) ==
    IF ParseI32(Slice(inp, 0, end)) = -1 THEN TokOut(inp, FirstCharError(inp))
    ELSE TokOut(SliceFrom(inp, end),
                TokOk(ValueInteger(IF neg THEN -ParseI32(Slice(inp, 0, end))
                                   ELSE ParseI32(Slice(inp, 0, end)))))

\* t without its leading zeros
RECURSIVE StripLeading(_)
StripLeading(t) == IF t # <<>> /\ t[1] = "0" THEN StripLeading(Tail(t)) ELSE t

\* t without its trailing zeros
RECURSIVE StripTrailing(_)
StripTrailing(t) ==
    IF t # <<>> /\ t[Len(t)] = "0" THEN StripTrailing(SubSeq(t, 1, Len(t) - 1)) ELSE t

\* a < b for digit runs read as decimal fractions 0.a and 0.b
RECURSIVE FractionLess(_, _)
FractionLess(a, b) ==
    IF b = <<>> THEN FALSE
    ELSE IF a = <<>> THEN StripTrailing(b) # <<>>
    ELSE IF a[1] = b[1] THEN FractionLess(Tail(a), Tail(b))
    ELSE (CHOOSE n \in 0..9 : ToString(n) = a[1]) < (CHOOSE n \in 0..9 : ToString(n) = b[1])

\* f32::MAX is 3.4028235e38; half the least positive f32 is 7.006492e-46
F32MaxExp == 38

F32MaxDigits == <<"3", "4", "0", "2", "8", "2", "3", "5">>

F32MinExp == -46

F32MinDigits == <<"7", "0", "0", "6", "4", "9", "2">>

\* the f32 nearest to the decimal digits * 10^exp (digits without leading
\* zeros), negated when neg: infinity above f32::MAX, zero below the least
\* positive f32
F32Of(neg, digits, exp) ==
    IF digits = <<>> THEN ValueFloat(neg, <<>>, 0)
    ELSE IF \/ Len(digits) + exp - 1 > F32MaxExp
            \/ /\ Len(digits) + exp - 1 = F32MaxExp
               /\ FractionLess(F32MaxDigits, digits)
         THEN ValueFloatInf(neg)
    ELSE IF \/ Len(digits) + exp - 1 < F32MinExp
            \/ /\ Len(digits) + exp - 1 = F32MinExp
               /\ FractionLess(digits, F32MinDigits)
         THEN ValueFloat(neg, <<>>, 0)
    ELSE ValueFloat(neg, StripTrailing(digits),
                    exp + Len(digits) - Len(StripTrailing(digits)))

\* str::parse::<f32> of the literal int '.' frac
ParseF32(int, frac) == F32Of(FALSE, StripLeading(int \o frac), -Len(frac))

\* 10f32.powi(exp): the power of |exp| is built by multiplication and
\* inverted at the end when exp < 0
Powi10(exp) ==
    IF exp > F32MaxExp THEN ValueFloatInf(FALSE)
    ELSE IF exp < -F32MaxExp THEN ValueFloat(FALSE, <<>>, 0)
    ELSE ValueFloat(FALSE, <<"1">>, exp)

\* 10f32.powi(exp) * f, pow being 10f32.powi(exp)
PowTimes(pow, exp, f) ==
    IF f.text \in {<<"inf">>, <<"NaN">>} THEN f
    ELSE IF pow.text = <<"inf">>
         THEN IF f.text = <<>> THEN ValueFloatNaN ELSE ValueFloatInf(f.neg)
    ELSE IF pow.text = <<>> THEN ValueFloat(f.neg, <<>>, 0)
    ELSE F32Of(f.neg, f.text, f.num + exp)

\* output * -1.
Negate(f) == [f EXCEPT !.neg = ~f.neg]

\* read_number's exponent: inp is the input after 'e' and the exponent's
\* sign, end the length of its digit run, f the signed mantissa
ReadExponent(f, expNeg, inp, end) ==
    IF ParseI32(Slice(inp, 0, end)) = -1 THEN TokOut(inp, FirstCharError(inp))
    ELSE With(IF expNeg THEN -ParseI32(Slice(inp, 0, end)) ELSE ParseI32(Slice(inp, 0, end)),
              LAMBDA exp : TokOut(SliceFrom(inp, end), TokOk(PowTimes(Powi10(exp), exp, f))))

\* the input after an optional sign is eaten
AfterSign(inp) == IF inp # <<>> /\ inp[1] \in {"+", "-"} THEN Tail(inp) ELSE inp

\* read_number's float branch after the mantissa is parsed and signed: inp
\* is the input that follows it
ReadAfterMantissa(f, inp) ==
    IF inp # <<>> /\ inp[1] \in {"e", "E"}
    THEN IF Tail(inp) = <<>> THEN TokOut(Tail(inp), ErrEof)
         ELSE ReadExponent(f, inp[2] = "-", AfterSign(Tail(inp)),
                           OrLen(FindNotIn(AfterSign(Tail(inp)), Digits), AfterSign(Tail(inp))))
    ELSE TokOut(inp, TokOk(f))

\* str::parse::<f32> accepts digits '.' digits with a digit on either side
FloatLiteralOk(lit) == \E i \in 1..Len(lit) : lit[i] \in Digits

\* match sign { '-' => output * -1., _ => output }
Signed(neg, f) == IF neg THEN Negate(f) ELSE f

\* read_number's float branch: inp is the input after the sign, point the
\* offset of the point, end the offset just after the digits that follow it
ReadFloat(neg, inp, point, end) ==
    IF ~FloatLiteralOk(Slice(inp, 0, end)) THEN TokOut(inp, FirstCharError(inp))
    ELSE ReadAfterMantissa(Signed(neg, ParseF32(Slice(inp, 0, point), Slice(inp, point + 1, end))),
                           SliceFrom(inp, end))

\* read_number after the sign: inp is the input after the sign, end the
\* length of its digit run
ReadUnsigned(neg, inp, end) ==
    IF end < Len(inp) /\ inp[end + 1] = "."
    THEN ReadFloat(neg, inp, end,
                   IF FindNotIn(SliceFrom(inp, end + 1), Digits) = -1 THEN Len(inp)
                   ELSE FindNotIn(SliceFrom(inp, end + 1), Digits) + end + 1)
    ELSE ReadInteger(neg, inp, end)

\* the value of a run of hex digits
RECURSIVE HexValue(_, _)
HexValue(ds, acc) ==
    IF ds = <<>> THEN acc
    ELSE HexValue(Tail(ds),
                  16 * acc + (CHOOSE n \in 0..15 :
                                 ds[1] \in {<<"0", "1", "2", "3", "4", "5", "6", "7", "8", "9",
                                              "A", "B", "C", "D", "E", "F">>[n + 1],
                                            <<"0", "1", "2", "3", "4", "5", "6", "7", "8", "9",
                                              "a", "b", "c", "d", "e", "f">>[n + 1]}))

HexDigits == Digits \cup {"A", "B", "C", "D", "E", "F", "a", "b", "c", "d", "e", "f"}

\* mutant: a literal that opens with 0x goes to read_number_zero_prefix
ReadNumber_ZeroPrefix(inp) ==
    IF inp = <<>> THEN TokOut(inp, ErrEof)
    ELSE IF Len(inp) >= 3 /\ inp[1] = "0" /\ inp[2] = "x" /\ inp[3] \in HexDigits
         THEN With(OrLen(FindNotIn(SliceFrom(inp, 2), HexDigits), SliceFrom(inp, 2)),
                   LAMBDA end : TokOut(SliceFrom(inp, 2 + end),
                                       TokOk(ValueInteger(HexValue(Slice(inp, 2, 2 + end), 0)))))
    ELSE ReadUnsigned(inp[1] = "-", AfterSign(inp),
                      OrLen(FindNotIn(AfterSign(inp), Digits), AfterSign(inp)))

\* Tokenizer::read_number
ReadNumber(inp) ==
    IF inp = <<>> THEN TokOut(inp, ErrEof)
    ELSE ReadUnsigned(inp[1] = "-", AfterSign(inp),
                      OrLen(FindNotIn(AfterSign(inp), Digits), AfterSign(inp)))

\* next_value's keyword branch: end is where the keyword ends
ReadKeyword(inp, end) ==
    TokOut(SliceFrom(inp, end),
           IF Slice(inp, 0, end) = <<"t", "r", "u", "e">> THEN TokOk(ValueBoolean(TRUE))
           ELSE IF Slice(inp, 0, end) = <<"f", "a", "l", "s", "e">> THEN TokOk(ValueBoolean(FALSE))
           ELSE ErrInvalidKeyword(Slice(inp, 0, end)))

\* next_value after skip_whitespace
ValueAt(inp) ==
    IF inp = <<>> THEN TokOut(inp, ErrEof)
    ELSE IF inp[1] = Quote THEN ReadStringValue(inp)
    ELSE IF inp[1] \in Digits \cup {"+", "-"} THEN ReadNumber(inp)
    ELSE ReadKeyword(inp, OrLen(FindIn(inp, KeywordEnd), inp))

\* Tokenizer::next_value
NextValueOp(inp) == ValueAt(SkipWhitespace(inp))

\* <Token as TryFrom<char>>::try_from: the token's kind, "none" for Err
TokenTryFrom(ch) ==
    IF ch = "=" THEN "Assignment"
    ELSE IF ch = "{" THEN "StartBlock"
    ELSE IF ch = "}" THEN "EndBlock"
    ELSE IF ch = ";" THEN "Seperator"
    ELSE "none"

\* mutant: the run of an identifier is of letters and underscores only
NextIdent_NoDigits(inp) ==
    IF inp = <<>> THEN TokOut(inp, ErrEof)
    ELSE IF inp[1] \in IdentStart
         THEN TokOut(SliceFrom(inp, OrLen(FindNotIn(inp, IdentStart), inp)),
                     TokOk(TokenIdent(Slice(inp, 0, OrLen(FindNotIn(inp, IdentStart), inp)))))
         ELSE TokOut(inp, ErrUnexpectedChar(inp[1]))

\* Tokenizer::next_ident
NextIdent(inp) ==
    IF inp = <<>> THEN TokOut(inp, ErrEof)
    ELSE IF inp[1] \in IdentStart
         THEN TokOut(SliceFrom(inp, OrLen(FindNotIn(inp, IdentChars), inp)),
                     TokOk(TokenIdent(Slice(inp, 0, OrLen(FindNotIn(inp, IdentChars), inp)))))
         ELSE TokOut(inp, ErrUnexpectedChar(inp[1]))

\* mutant: the char of a structural token is peeked and not consumed
TokenAt_NoAdvance(inp) ==
    IF inp # <<>> /\ TokenTryFrom(inp[1]) # "none"
    THEN TokOut(inp, TokOk(TokenOf(TokenTryFrom(inp[1]))))
    ELSE NextIdent(inp)

\* next_token after skip_whitespace
TokenAt(inp) ==
    IF inp # <<>> /\ TokenTryFrom(inp[1]) # "none"
    THEN TokOut(Tail(inp), TokOk(TokenOf(TokenTryFrom(inp[1]))))
    ELSE NextIdent(inp)

\* Tokenizer::next_token
NextTokenOp(inp) == TokenAt(SkipWhitespace(inp))

\* Tokenizer::peek_token: next_token on a copy of the tokenizer
PeekTokenOp(inp) == TokOut(inp, NextTokenOp(inp).res)

(***************************************************************************)
(* The serde bridge (de/serde_impl.rs) and Parser (de/mod.rs).  The type   *)
(* decoded is self-describing: its visitor takes any scalar as it comes    *)
(* and, for a block, asks for entries until the block access answers None. *)
(***************************************************************************)
ErrExpectedSeperator == TokErr("ExpectedSeperator", <<>>)

ErrExpectedIdent == TokErr("ExpectedIdent", <<>>)

\* Error::custom(msg)
ErrMessage(msg) == TokErr("Message", <<msg>>)

\* todo!(): a panic
TodoPanic == TokErr("panic", <<"not yet implemented">>)

\* Some(key) and None, as next_key returns them
KeySome(id) == [kind |-> "Some", text |-> id, num |-> 0, neg |-> FALSE]

KeyNone == [kind |-> "None", text |-> <<>>, num |-> 0, neg |-> FALSE]

\* the map a visitor built from a block of n entries (the entries are in pairs)
ValueBlock(n) == [kind |-> "Block", text |-> <<>>, num |-> n, neg |-> FALSE]

\* what a call of the bridge leaves: the input, the result, the entries visited
BridgeOut(inp, res, pairs) == [input |-> inp, res |-> res, pairs |-> pairs]

\* mutant: the token after the value is read but may be any token
AfterValue_AnyToken(val, t) ==
    IF ~t.res.ok THEN TokOut(t.input, t.res) ELSE TokOut(t.input, TokOk(val))

\* ValueDeserializer::deserialize_any after the value val was visited: t is
\* what next_token returned
AfterValue(val, t) ==
    IF ~t.res.ok THEN TokOut(t.input, t.res)
    ELSE IF t.res.val.kind = "Seperator" THEN TokOut(t.input, TokOk(val))
    ELSE TokOut(t.input, ErrExpectedSeperator)

\* ValueDeserializer::deserialize_any
ValueDeserialize(inp) ==
    With(NextValueOp(inp),
         LAMBDA v : IF ~v.res.ok THEN v ELSE AfterValue(v.res.val, NextTokenOp(v.input)))

\* BlockAccess::next_key_seed after the identifier id: t is what the second
\* next_token returned
AfterIdent(id, t) ==
    IF ~t.res.ok THEN TokOut(t.input, t.res)
    ELSE IF t.res.val.kind = "Assignment" THEN TokOut(t.input, TokOk(KeySome(id)))
    ELSE TokOut(t.input, ErrMessage("expected assignment token"))

\* mutant: running out of input ends the block
BlockKeyOf_EofEnds(t) ==
    IF ~t.res.ok
    THEN IF t.res.err.kind = "Eof" THEN TokOut(t.input, TokOk(KeyNone)) ELSE TokOut(t.input, t.res)
    ELSE IF t.res.val.kind = "Ident" THEN AfterIdent(t.res.val.text, NextTokenOp(t.input))
    ELSE IF t.res.val.kind = "EndBlock" THEN TokOut(t.input, TokOk(KeyNone))
    ELSE TokOut(t.input, ErrMessage("unexpected token"))

\* BlockAccess::next_key_seed: t is what the first next_token returned
BlockKeyOf(t) ==
    IF ~t.res.ok THEN TokOut(t.input, t.res)
    ELSE IF t.res.val.kind = "Ident" THEN AfterIdent(t.res.val.text, NextTokenOp(t.input))
    ELSE IF t.res.val.kind = "EndBlock" THEN TokOut(t.input, TokOk(KeyNone))
    ELSE TokOut(t.input, ErrMessage("unexpected token"))

\* BlockAccess::next_key_seed
BlockNextKey(inp) == With(NextTokenOp(inp), LAMBDA t : BlockKeyOf(t))

\* visitor.visit_map(BlockAccess): entries are asked for until next_key_seed
\* answers None or a call fails; acc holds the entries visited so far
RECURSIVE VisitMap(_, _)
RECURSIVE VisitEntry(_, _)
RECURSIVE VisitValue(_, _, _)
VisitMap(inp, acc) == With(BlockNextKey(inp), LAMBDA k : VisitEntry(k, acc))

\* k is what next_key_seed returned
VisitEntry(k, acc) ==
    IF ~k.res.ok THEN BridgeOut(k.input, k.res, <<>>)
    ELSE IF k.res.val.kind = "None" THEN BridgeOut(k.input, TokOk(ValueBlock(Len(acc))), acc)
    ELSE VisitValue(k.res.val.text, ValueDeserialize(k.input), acc)

\* v is what next_value_seed returned for the key
VisitValue(key, v, acc) ==
    IF ~v.res.ok THEN BridgeOut(v.input, v.res, <<>>)
    ELSE VisitMap(v.input, Append(acc, [key |-> key, val |-> v.res.val]))

\* the scalar branch of TopLevelDeserializer::deserialize_any
TopLevelValue(v) == BridgeOut(v.input, v.res, <<>>)

\* TopLevelDeserializer::deserialize_any: t is what next_token returned
TopLevelOf(t) ==
    IF ~t.res.ok THEN BridgeOut(t.input, t.res, <<>>)
    ELSE IF t.res.val.kind = "Assignment" THEN TopLevelValue(ValueDeserialize(t.input))
    ELSE IF t.res.val.kind = "StartBlock" THEN VisitMap(t.input, <<>>)
    ELSE BridgeOut(t.input, TodoPanic, <<>>)

\* Parser::next_value
ParserNextValueOp(inp) == With(NextTokenOp(inp), LAMBDA t : TopLevelOf(t))

\* mutant: every failure of next_token ends the document
KeyOf_AnyErrorEnds(t) ==
    IF ~t.res.ok THEN BridgeOut(t.input, TokOk(KeyNone), <<>>)
    ELSE IF t.res.val.kind = "Ident" THEN BridgeOut(t.input, TokOk(KeySome(t.res.val.text)), <<>>)
    ELSE BridgeOut(t.input, ErrExpectedIdent, <<>>)

\* Parser::next_key: t is what next_token returned
KeyOf(t) ==
    IF ~t.res.ok
    THEN IF t.res.err.kind = "Eof" THEN BridgeOut(t.input, TokOk(KeyNone), <<>>)
         ELSE BridgeOut(t.input, t.res, <<>>)
    ELSE IF t.res.val.kind = "Ident" THEN BridgeOut(t.input, TokOk(KeySome(t.res.val.text)), <<>>)
    ELSE BridgeOut(t.input, ErrExpectedIdent, <<>>)

\* Parser::next_key
ParserNextKeyOp(inp) == With(NextTokenOp(inp), LAMBDA t : KeyOf(t))

(***************************************************************************)
(* The map reader of src/map.rs: the grammar textmap_parser.  A rule takes *)
(* the text at its position and answers [ok, rest, val]: whether it        *)
(* matched, the text after the match and the value of the match.  A choice *)
(* takes its first alternative that matches and never returns to it.       *)
(***************************************************************************)
PegFailed == [ok |-> FALSE, rest |-> <<>>, val |-> NoVal]

PegMatched(rest, val) == [ok |-> TRUE, rest |-> rest, val |-> val]

\* Value::Bool
ValueBool(b) == [kind |-> "Bool", text |-> <<>>, num |-> IF b THEN 1 ELSE 0, neg |-> FALSE]

\* [^ '{' | '}' | '(' | ')' | ';' | '"' | '\'' | '\n' | '\t' | ' ']
KeywordStop == {"{", "}", "(", ")", ";", Quote, "'", "\n", "\t", " "}

\* rule keyword: the value is the text of the run
keyword(t) ==
    IF OrLen(FindIn(t, KeywordStop), t) = 0 THEN PegFailed
    ELSE PegMatched(SliceFrom(t, OrLen(FindIn(t, KeywordStop), t)),
                    Slice(t, 0, OrLen(FindIn(t, KeywordStop), t)))

\* rule boolean
boolean(t) ==
    With(keyword(t),
         LAMBDA k : IF ~k.ok THEN PegFailed
                    ELSE IF k.val = <<"t", "r", "u", "e">> THEN PegMatched(k.rest, ValueBool(TRUE))
                    ELSE IF k.val = <<"f", "a", "l", "s", "e">> THEN PegMatched(k.rest, ValueBool(FALSE))
                    ELSE PegFailed)

\* rule nil
nil(t) ==
    With(keyword(t),
         LAMBDA k : IF k.ok /\ k.val = <<"n", "i", "l">> THEN PegMatched(k.rest, ValueNil)
                    ELSE PegFailed)

\* rule quoted_string: every char but the quote is a string_character
quoted_string(t) ==
    IF t = <<>> \/ t[1] # Quote \/ FindIn(Tail(t), {Quote}) = -1 THEN PegFailed
    ELSE PegMatched(SliceFrom(Tail(t), FindIn(Tail(t), {Quote}) + 1),
                    ValueString(Slice(Tail(t), 0, FindIn(Tail(t), {Quote}))))

\* $(['+' | '-'])?: the length of the sign
SignLen(t) == IF t # <<>> /\ t[1] \in {"+", "-"} THEN 1 ELSE 0

\* ['0'..='9']*: the length of the run of digits t opens with
DigitsLen(t) == OrLen(FindNotIn(t, Digits), t)

\* rule float after the sign: u is the text after it; the digits, the point
\* and the digits after it go to str::parse::<f32>, the result times sign
FloatUnsigned(neg, u) ==
    IF DigitsLen(u) = 0 \/ DigitsLen(u) = Len(u) \/ u[DigitsLen(u) + 1] # "." THEN PegFailed
    ELSE With(SliceFrom(u, DigitsLen(u) + 1),
              LAMBDA f : PegMatched(SliceFrom(f, DigitsLen(f)),
                                    Signed(neg, ParseF32(Slice(u, 0, DigitsLen(u)),
                                                         Slice(f, 0, DigitsLen(f))))))

\* rule float
float(t) == FloatUnsigned(SignLen(t) = 1 /\ t[1] = "-", SliceFrom(t, SignLen(t)))

\* rule integer_natural after the sign
NaturalUnsigned(neg, u) ==
    IF u = <<>> \/ u[1] \notin Digits \ {"0"} THEN PegFailed
    ELSE IF ParseI32(Slice(u, 0, DigitsLen(u))) = -1 THEN PegFailed
    ELSE PegMatched(SliceFrom(u, DigitsLen(u)),
                    ValueInteger(IF neg THEN -ParseI32(Slice(u, 0, DigitsLen(u)))
                                 ELSE ParseI32(Slice(u, 0, DigitsLen(u)))))

\* rule integer_natural
integer_natural(t) == NaturalUnsigned(SignLen(t) = 1 /\ t[1] = "-", SliceFrom(t, SignLen(t)))

\* rule integer_zero_start
integer_zero_start(t) ==
    IF t = <<>> \/ t[1] # "0" THEN PegFailed
    ELSE IF ParseI32(Slice(t, 0, DigitsLen(t))) = -1 THEN PegFailed
    ELSE PegMatched(SliceFrom(t, DigitsLen(t)), ValueInteger(ParseI32(Slice(t, 0, DigitsLen(t)))))

\* i32::from_str_radix(number, 16) fits
HexFits(ds) ==
    \/ Len(StripLeading(ds)) <= 7
    \/ Len(StripLeading(ds)) = 8 /\ StripLeading(ds)[1] \in {"1", "2", "3", "4", "5", "6", "7"}

\* rule integer_hex
integer_hex(t) ==
    IF Len(t) < 3 \/ t[1] # "0" \/ t[2] # "x" \/ t[3] \notin HexDigits THEN PegFailed
    ELSE With(OrLen(FindNotIn(SliceFrom(t, 2), HexDigits), SliceFrom(t, 2)),
              LAMBDA n : IF ~HexFits(Slice(t, 2, 2 + n)) THEN PegFailed
                         ELSE PegMatched(SliceFrom(t, 2 + n),
                                         ValueInteger(HexValue(Slice(t, 2, 2 + n), 0))))

\* the first of the rules a, b that matches
OrElse(a, b) == IF a.ok THEN a ELSE b

\* rule integer
integer(t) == OrElse(integer_natural(t), OrElse(integer_zero_start(t), integer_hex(t)))

\* rule value
value(t) == OrElse(float(t), OrElse(integer(t), OrElse(quoted_string(t), boolean(t))))

\* rule value_and_nil
value_and_nil(t) == OrElse(value(t), nil(t))

\* 'A'..='Z' | 'a'..='z'
IdentLetters == IdentStart \ {"_"}

\* rule identifier: the value is the text of the identifier
identifier(t) ==
    IF t = <<>> \/ t[1] \notin IdentLetters THEN PegFailed
    ELSE PegMatched(SliceFrom(t, OrLen(FindNotIn(t, IdentChars), t)),
                    Slice(t, 0, OrLen(FindNotIn(t, IdentChars), t)))

\* rule _
PegSpace == {" ", "\n", "\t"}

SkipSpace(t) == SliceFrom(t, OrLen(FindNotIn(t, PegSpace), t))

\* the literal ch at t, after _
Literal(t, ch) ==
    IF SkipSpace(t) # <<>> /\ SkipSpace(t)[1] = ch THEN PegMatched(Tail(SkipSpace(t)), NoVal)
    ELSE PegFailed

\* rule assignment_expr: the value is the pair (ident, value)
AssignmentValue(id, v) ==
    IF ~v.ok \/ ~Literal(v.rest, ";").ok THEN PegFailed
    ELSE PegMatched(Literal(v.rest, ";").rest, [key |-> id.val, val |-> v.val])

assignment_expr(t) ==
    With(identifier(t),
         LAMBDA id : IF ~id.ok \/ ~Literal(id.rest, "=").ok THEN PegFailed
                     ELSE AssignmentValue(id, value_and_nil(SkipSpace(Literal(id.rest, "=").rest))))

\* assignment_expr() ** _: pairs holds the matches so far; a separator
\* that no further match follows is not consumed
RECURSIVE AssignmentList(_, _)
AssignmentList(t, pairs) ==
    With(assignment_expr(IF pairs = <<>> THEN t ELSE SkipSpace(t)),
         LAMBDA a : IF a.ok THEN AssignmentList(a.rest, Append(pairs, a.val))
                    ELSE PegMatched(t, pairs))

\* .into_iter().collect::<HashMap<String, Value>>(): a later pair replaces
\* an earlier one of the same key
Collect(pairs) ==
    [k \in { pairs[i].key : i \in 1..Len(pairs) } |->
        pairs[CHOOSE i \in 1..Len(pairs) :
                  /\ pairs[i].key = k
                  /\ \A j \in (i + 1)..Len(pairs) : pairs[j].key # k].val]

\* rule expr_list
expr_list(t) ==
    With(AssignmentList(t, <<>>), LAMBDA l : PegMatched(l.rest, Collect(l.val)))

\* Global::Assign(name, value) and Global::Block(Block { ident, contents })
GlobalAssign(name, v) == [kind |-> "Assign", ident |-> name, val |-> v, contents |-> <<>>]

GlobalBlock(ident, contents) == [kind |-> "Block", ident |-> ident, val |-> NoVal, contents |-> contents]

\* rule block after its '{'
BlockContents(id, l) ==
    IF ~Literal(l.rest, "}").ok THEN PegFailed
    ELSE PegMatched(Literal(l.rest, "}").rest, GlobalBlock(id.val, l.val))

\* rule block
block(t) ==
    With(identifier(t),
         LAMBDA id : IF ~id.ok \/ ~Literal(id.rest, "{").ok THEN PegFailed
                     ELSE BlockContents(id, expr_list(SkipSpace(Literal(id.rest, "{").rest))))

\* rule global_assignment
global_assignment(t) ==
    With(assignment_expr(t),
         LAMBDA a : IF a.ok THEN PegMatched(a.rest, GlobalAssign(a.val.key, a.val.val))
                    ELSE PegFailed)

\* rule global_expr
global_expr(t) == OrElse(global_assignment(t), block(t))

\* rule global_expr_list: global_expr() ** _
RECURSIVE GlobalList(_, _)
GlobalList(t, globals) ==
    With(global_expr(IF globals = <<>> THEN t ELSE SkipSpace(t)),
         LAMBDA g : IF g.ok THEN GlobalList(g.rest, Append(globals, g.val))
                    ELSE PegMatched(t, globals))

\* Error::Parse, ValueError::MissingField, ValueError::InvalidType
ErrorParse == [kind |-> "Parse", text |-> <<>>]

MissingField(name) == [kind |-> "MissingField", text |-> name]

InvalidType(type_name) == [kind |-> "InvalidType", text |-> <<type_name>>]

\* textmap_parser::udmf(&input).map_err(Error::Parse): the rule must match
\* the whole input
udmf(t) ==
    With(GlobalList(SkipSpace(t), <<>>),
         LAMBDA l : IF SkipSpace(l.rest) = <<>> THEN Ok(l.val) ELSE Err(ErrorParse))

\* s.find("//"): the offset of the first one, -1 for None
FindComment(line) ==
    IF \E i \in 1..(Len(line) - 1) : line[i] = "/" /\ line[i + 1] = "/"
    THEN (CHOOSE i \in 1..(Len(line) - 1) :
              /\ line[i] = "/" /\ line[i + 1] = "/"
              /\ \A j \in 1..(i - 1) : ~(line[j] = "/" /\ line[j + 1] = "/")) - 1
    ELSE -1

\* the closure of preprocess for one line
StripComment(line) == Slice(line, 0, OrLen(FindComment(line), line))

\* preprocess: the pieces of input.split("\n"), each cut at its comment
\* and followed by a line feed
RECURSIVE preprocess(_)
preprocess(t) ==
    IF FindIn(t, {"\n"}) = -1 THEN StripComment(t) \o <<"\n">>
    ELSE StripComment(Slice(t, 0, FindIn(t, {"\n"}))) \o <<"\n">>
             \o preprocess(SliceFrom(t, FindIn(t, {"\n"}) + 1))

\* Value::type_name
TypeName(v) ==
    CASE v.kind = "Bool" -> "boolean"
      [] v.kind = "String" -> "string"
      [] v.kind = "Integer" -> "integer"
      [] v.kind = "Float" -> "float"
      [] v.kind = "Nil" -> "nil"

\* Some(f) and None of Option<f32>
SomeOf(f) == [some |-> TRUE, val |-> f]

NoneOf == [some |-> FALSE, val |-> NoVal]

\* mutant: an integer is taken for a float
get_float_Coerces(c, name) ==
    IF name \notin DOMAIN c THEN Err(MissingField(name))
    ELSE IF c[name].kind \in {"Float", "Integer"} THEN Ok(c[name])
    ELSE Err(InvalidType(TypeName(c[name])))

\* Extras::get_float
get_float(c, name) ==
    IF name \notin DOMAIN c THEN Err(MissingField(name))
    ELSE IF c[name].kind = "Float" THEN Ok(c[name])
    ELSE Err(InvalidType(TypeName(c[name])))

\* Extras::get_optional_float
get_optional_float(c, name) ==
    IF name \notin DOMAIN c THEN Ok(NoneOf)
    ELSE IF c[name].kind = "Float" THEN Ok(SomeOf(c[name]))
    ELSE Err(InvalidType(TypeName(c[name])))

\* Extras::get_integer
get_integer(c, name) ==
    IF name \notin DOMAIN c THEN Err(MissingField(name))
    ELSE IF c[name].kind = "Integer" THEN Ok(c[name])
    ELSE Err(InvalidType(TypeName(c[name])))

\* mutant: nothing is excluded
without_Nothing(c, names) == c

\* Extras::without
without(c, names) == [k \in DOMAIN c \ names |-> c[k]]

\* the names of the fields of a Thing and of a Vertex
NameX == <<"x">>

NameY == <<"y">>

NameHeight == <<"h", "e", "i", "g", "h", "t">>

NameAngle == <<"a", "n", "g", "l", "e">>

NameType == <<"t", "y", "p", "e">>

NameThing == <<"t", "h", "i", "n", "g">>

NameVertex == <<"v", "e", "r", "t", "e", "x">>

\* the first failure of the results rs, in order
FirstErr(rs) ==
    rs[CHOOSE i \in 1..Len(rs) : ~rs[i].ok /\ \A j \in 1..(i - 1) : rs[j].ok]

\* Thing { x: ..?, y: ..?, height: ..?, angle: ..?, kind: ..?, extras }
ThingOf(c) ==
    With(<<get_float(c, NameX), get_float(c, NameY), get_optional_float(c, NameHeight),
           get_integer(c, NameAngle), get_integer(c, NameType)>>,
         LAMBDA f : IF \E i \in 1..5 : ~f[i].ok THEN Err(FirstErr(f).err)
                    ELSE Ok([x |-> f[1].val, y |-> f[2].val, height |-> f[3].val,
                             angle |-> f[4].val, kind |-> f[5].val,
                             extras |-> without(c, {NameX, NameY, NameHeight, NameAngle, NameType})]))

\* Vertex { x: ..?, y: ..?, extras }
VertexOf(c) ==
    With(<<get_float(c, NameX), get_float(c, NameY)>>,
         LAMBDA f : IF \E i \in 1..2 : ~f[i].ok THEN Err(FirstErr(f).err)
                    ELSE Ok([x |-> f[1].val, y |-> f[2].val,
                             extras |-> without(c, {NameX, NameY})]))

\* Map::default()
MapDefault == [things |-> <<>>, vertices |-> <<>>, extras |-> <<>>]

\* HashMap::insert
Insert(m, k, v) == [x \in DOMAIN m \cup {k} |-> IF x = k THEN v ELSE m[x]]

\* the arm Global::Block(_block): nothing is done
LoadOther(g, map) == Ok(map)

\* mutant: a thing is put in front of the things read before it
LoadThing_Front(g, map) ==
    With(ThingOf(g.contents),
         LAMBDA th : IF ~th.ok THEN th ELSE Ok([map EXCEPT !.things = <<th.val>> \o map.things]))

\* the arm of a thing block
LoadThing(g, map) ==
    With(ThingOf(g.contents),
         LAMBDA th : IF ~th.ok THEN th ELSE Ok([map EXCEPT !.things = Append(map.things, th.val)]))

\* the arm of a vertex block
LoadVertex(g, map) ==
    With(VertexOf(g.contents),
         LAMBDA v : IF ~v.ok THEN v ELSE Ok([map EXCEPT !.vertices = Append(map.vertices, v.val)]))

\* mutant: an assignment of a key the extras hold already is ignored
LoadAssign_KeepsFirst(g, map) ==
    IF g.ident \in DOMAIN map.extras THEN Ok(map)
    ELSE Ok([map EXCEPT !.extras = Insert(map.extras, g.ident, g.val)])

\* the arm Global::Assign(name, value)
LoadAssign(g, map) == Ok([map EXCEPT !.extras = Insert(map.extras, g.ident, g.val)])

\* the body of the loop of Map::from_str for one global
LoadGlobal(g, map) ==
    IF g.kind = "Assign" THEN LoadAssign(g, map)
    ELSE IF g.ident = NameThing THEN LoadThing(g, map)
    ELSE IF g.ident = NameVertex THEN LoadVertex(g, map)
    ELSE LoadOther(g, map)

\* for global in parsed.into_iter(): the first failure is returned
RECURSIVE LoadAll(_, _)
LoadAll(globals, map) ==
    IF globals = <<>> THEN Ok(map)
    ELSE With(LoadGlobal(Head(globals), map),
              LAMBDA r : IF ~r.ok THEN r ELSE LoadAll(Tail(globals), r.val))

\* Map::from_str
from_str(str) ==
    With(udmf(preprocess(str)),
         LAMBDA parsed : IF ~parsed.ok THEN parsed ELSE LoadAll(parsed.val, MapDefault))

\* the chars of the texts TokInit hands to the tokenizer
TokAlphabet == {Quote, Backslash, "a", " ", "1"}

Texts(n) == UNION { [1..k -> TokAlphabet] : k \in 0..n }

WadIdle ==
    /\ source = <<>>
    /\ readerKind = "cursor"
    /\ cursor = 0
    /\ ioLog = <<>>
    /\ pc = "idle"
    /\ header = NoHeader
    /\ old_cursor = 0
    /\ lump_infos = <<>>
    /\ lump_data = <<>>
    /\ wadResult = Pending
    /\ lookup = NoLookup

\* the signs a numeric literal may open with
Signs == {<<>>, <<"+">>, <<"-">>}

\* digit runs: small ones, leading zeros, and the ends of the i32 range
DigitRuns ==
    { <<"0">>, <<"2">>, <<"4">>, <<"8">>, <<"1", "0">>, <<"0", "0", "7">>,
      <<"1", "0", "0", "0">>,
      <<"2", "1", "4", "7", "4", "8", "3", "6", "4", "7">>,
      <<"2", "1", "4", "7", "4", "8", "3", "6", "4", "8">>,
      <<"2", "1", "4", "7", "4", "8", "3", "6", "4", "9">>,
      <<"0", "2", "1", "4", "7", "4", "8", "3", "6", "4", "8">>,
      <<"9", "9", "9", "9", "9", "9", "9", "9", "9", "9", "9">> }

\* what follows the digit run of an integer literal
IntTails ==
    { <<>>, <<";">>, <<" ", ";">>, <<"\n">>, <<"e", "3">>, <<"=">>, <<"}">>,
      <<"x", "0", "0", "5", "A">>, <<"x", "f", "F", ";">> }

\* what follows the digit run of a float literal
FloatTails ==
    { <<".">>, <<".", ";">>, <<".", "2">>, <<".", "1", " ">>, <<".", "0", ";">>,
      <<".", "2", "5", "0">>,
      <<".", "0", "E", "-", "1">>, <<".", "0", "E", "9", ";">>,
      <<".", "0", "E", "-", "2">>, <<".", "5", "e", "+", "0", "2", "x">>,
      <<".", "0", "0", "1", "E", "3">>,
      <<".", "5", "e">>, <<".", "5", "e", "-">>, <<".", "5", "E", ";">>,
      <<".", "0", "E", "3", "8">>, <<".", "0", "E", "3", "9">>,
      <<".", "0", "e", "-", "3", "9", ";">>, <<".", "0", "E", "-", "3", "8">>,
      <<".", "0", "E", "2", "1", "4", "7", "4", "8", "3", "6", "4", "8">>,
      <<".", "2", ".", "3">> }

\* the whitespace a text may open with
Leads == {<<>>, <<" ">>, <<"\n", "\t">>}

\* numeric literals, with what follows them
NumberTexts ==
    { l \o s \o d \o t :
        l \in Leads, s \in Signs, d \in DigitRuns \cup {<<>>}, t \in IntTails \cup FloatTails }

\* keyword runs, and the chars that may follow one
KeywordRuns ==
    { <<>>, <<"t", "r", "u", "e">>, <<"f", "a", "l", "s", "e">>, <<"n", "i", "l">>,
      <<"t", "r", "u">>, <<"T", "r", "u", "e">>, <<"o", "n">> }

KeywordFollowers ==
    { "=", ";", "{", "}", "\"", " ", "\n", "\t", "\r", "\f", "^", "(", ")", "'", ",", "e" }

\* keywords, with what follows them
KeywordTexts ==
    { l \o k \o t : l \in Leads, k \in KeywordRuns,
                    t \in {<<>>} \cup { <<c>> : c \in KeywordFollowers }
                                 \cup { <<c, "x">> : c \in KeywordFollowers } }

\* the pieces of the texts of MaxLexemes pieces at most
MaxLexemes == 4

Lexemes ==
    { <<"a">>, <<"=">>, <<";">>, <<"{">>, <<"}">>, <<"1">>, <<"n", "i", "l">>, <<"#">> }

\* the pieces ps, each followed by gap
RECURSIVE Spaced(_, _)
Spaced(ps, gap) == IF ps = <<>> THEN <<>> ELSE Head(ps) \o gap \o Spaced(Tail(ps), gap)

\* every text of MaxLexemes pieces at most, with and without space between
LexemeTexts ==
    { Spaced(ps, gap) : ps \in UNION { [1..k -> Lexemes] : k \in 0..MaxLexemes },
                        gap \in {<<>>, <<" ">>} }

\* the items of a well-formed document, piece by piece
Assign(key, val) == <<key, <<"=">>, val, <<";">>>>

Block(key, entries) == <<key, <<"{">>>> \o Flatten(entries) \o <<<<"}">>>>

MinI32Text == <<"-", "2", "1", "4", "7", "4", "8", "3", "6", "4", "8">>

Items ==
    { Assign(<<"a">>, <<"1">>),
      Assign(<<"b", "1">>, <<Quote, "s", Backslash, Quote, Quote>>),
      Assign(<<"a">>, <<"-", "4", ".", "2">>),
      Assign(<<"_", "x">>, <<"t", "r", "u", "e">>),
      Assign(<<"a">>, <<"n", "i", "l">>),
      Assign(<<"a">>, MinI32Text),
      Block(<<"a">>, <<>>),
      Block(<<"t", "h", "i", "n", "g">>,
            <<Assign(<<"x">>, <<"1">>), Assign(<<"y">>, <<Quote, "s", Quote>>)>>),
      Block(<<"v">>, <<Assign(<<"x">>, <<"n", "i", "l">>)>>),
      Block(<<"a">>,
            <<Assign(<<"b">>, <<"f", "a", "l", "s", "e">>), Assign(<<"a">>, <<"3">>),
              Assign(<<"a">>, <<"4", ".", "0", "E", "9">>)>>) }

\* items that are not of the format: a hex literal as a value
HexItems ==
    { Assign(<<"a">>, <<"0", "x", "0", "0", "5", "A">>),
      Assign(<<"a">>, <<"-", "0", "x", "f">>),
      Block(<<"a">>, <<Assign(<<"b">>, <<"0", "x", "1">>)>>) }

\* items that are not of the format: blocks with an entry that is cut or
\* followed by what may not follow it
BrokenItems ==
    { <<<<"a">>, <<"{">>, <<"x">>, <<"=">>, <<"1">>, <<"}">>>>,
      <<<<"a">>, <<"{">>, <<"x">>, <<"=">>, <<"1">>, <<"y">>, <<"=">>, <<"2">>, <<";">>, <<"}">>>>,
      <<<<"a">>, <<"{">>, <<"x">>, <<";">>, <<"}">>>>,
      <<<<"a">>, <<"{">>, <<"x">>, <<"=">>, <<"1">>, <<";">>, <<"y">>, <<"{">>, <<"}">>>>,
      <<<<"a">>, <<"{">>, <<"x">>, <<"=">>, <<"1">>, <<";">>, <<";">>, <<"}">>>>,
      <<<<"a">>, <<"{">>, <<"x">>, <<"=">>, <<"1">>, <<";">>, <<"{">>, <<"}">>>>,
      <<<<"a">>, <<"{">>, <<"x">>, <<"=">>, <<"1">>, <<";">>, <<"=">>, <<"}">>>>,
      <<<<"a">>, <<"{">>, <<"x">>, <<"=">>, <<"1">>, <<";">>, <<"#">>, <<"}">>>> }

\* the whitespace between the pieces of a document
Gaps == {<<>>, <<" ">>, <<"\n", "\t">>, <<"\r", "\n">>}

\* a document has MaxItems items at most
MaxItems == 2

Documents ==
    { [gap |-> g, items |-> is] :
        g \in Gaps, is \in UNION { [1..k -> Items] : k \in 0..MaxItems } }

HexDocuments == { [gap |-> g, items |-> <<i>>] : g \in Gaps, i \in HexItems }

BrokenDocuments == { [gap |-> g, items |-> <<i>>] : g \in Gaps, i \in BrokenItems }

\* the text of the document d from its item i + 1 on
TextFrom(d, i) == d.gap \o Spaced(Flatten(SubSeq(d.items, i + 1, Len(d.items))), d.gap)

\* the text of the document d
TextOf(d) == TextFrom(d, 0)

\* a document of one item, cut short
CutDocuments ==
    UNION { { SubSeq(TextOf(d), 1, k) : k \in 0..Len(TextOf(d)) } :
              d \in { [gap |-> g, items |-> <<i>>] : g \in Gaps, i \in Items } }

\* the documents of one item
TokenDocuments == { [gap |-> g, items |-> <<i>>] : g \in Gaps, i \in Items }

\* Tokenizer::new(input)
TokInit ==
    /\ \/ /\ input \in Texts(MaxLen) \cup NumberTexts \cup KeywordTexts
          /\ doc = NoDoc
       \/ /\ doc \in TokenDocuments
          /\ input = TextOf(doc)
    /\ prevInput = input
    /\ tokCall = "none"
    /\ tokResult = NoTokResult
    /\ decoded = <<>>
    /\ WadIdle
    /\ MapIdle

\* the tokenizer is still there to be called
TokAlive == tokResult.err.kind # "panic"

\* the state after the call named call returned out
TokReturns(call, out) ==
    /\ prevInput' = input
    /\ tokCall' = call
    /\ input' = out.input
    /\ tokResult' = out.res
    /\ decoded' = <<>>
    /\ UNCHANGED doc
    /\ UNCHANGED <<wadVars, mapVars>>

NextValue == TokAlive /\ TokReturns("next_value", NextValueOp(input))

NextToken == TokAlive /\ TokReturns("next_token", NextTokenOp(input))

PeekToken == TokAlive /\ TokReturns("peek_token", PeekTokenOp(input))

\* the state after the parser call named call returned out
ParserReturns(call, out) ==
    /\ prevInput' = input
    /\ tokCall' = call
    /\ input' = out.input
    /\ tokResult' = out.res
    /\ decoded' = out.pairs
    /\ UNCHANGED doc
    /\ UNCHANGED <<wadVars, mapVars>>

ParserNextKey == TokAlive /\ ParserReturns("Parser::next_key", ParserNextKeyOp(input))

ParserNextValue == TokAlive /\ ParserReturns("Parser::next_value", ParserNextValueOp(input))

TokNext == NextValue \/ NextToken \/ PeekToken

TokSpec == TokInit /\ [][TokNext]_vars

\* Parser::new(input)
ParserInit ==
    /\ \/ /\ input \in LexemeTexts \cup CutDocuments
          /\ doc = NoDoc
       \/ /\ doc \in Documents \cup HexDocuments \cup BrokenDocuments
          /\ input = TextOf(doc)
    /\ prevInput = input
    /\ tokCall = "none"
    /\ tokResult = NoTokResult
    /\ decoded = <<>>
    /\ WadIdle
    /\ MapIdle

\* a Parser and the Tokenizer it owns
ParserNext == ParserNextKey \/ ParserNextValue \/ NextToken \/ NextValue

ParserSpec == ParserInit /\ [][ParserNext]_vars

(***************************************************************************)
(* The map reader as a state machine: a text is handed to preprocess and   *)
(* to Map::from_str.                                                       *)
(***************************************************************************)
\* the items of the map texts: top-level assignments, things and vertices
\* with fields in and out of order, of the wrong kind, missing and written
\* twice, and blocks of other kinds
MapItems ==
    { Assign(<<"s", "i", "l", "l", "y", "k", "e", "y">>, <<"7">>),
      Assign(<<"s", "i", "l", "l", "y", "k", "e", "y">>, <<"8">>),
      Assign(<<"n", "a", "m", "e", "s", "p", "a", "c", "e">>, <<"\"", "s", "r", "b", "2", "\"">>),
      Assign(<<"v", "e", "r", "s", "i", "o", "n">>, <<"2">>),
      Assign(<<"a">>, <<"4", ".", "0", "E", "9">>),
      Block(<<"t", "h", "i", "n", "g">>,
            <<Assign(<<"x">>, <<"4", "3", ".", "0">>),
              Assign(<<"y">>, <<"4", "5", "9", ".", "0">>),
              Assign(<<"a", "n", "g", "l", "e">>, <<"3", "0">>),
              Assign(<<"t", "y", "p", "e">>, <<"1">>),
              Assign(<<"a", "r", "g", "0">>, <<"\"", "W", "A", "D", "S", "U", "P", "\"">>)>>),
      Block(<<"t", "h", "i", "n", "g">>,
            <<Assign(<<"t", "y", "p", "e">>, <<"2">>),
              Assign(<<"h", "e", "i", "g", "h", "t">>, <<"8", ".", "0">>),
              Assign(<<"a", "r", "g", "0">>, <<"7">>),
              Assign(<<"y">>, <<"0", ".", "0">>),
              Assign(<<"x">>, <<"-", "1", ".", "5">>),
              Assign(<<"a", "n", "g", "l", "e">>, <<"0">>),
              Assign(<<"a", "r", "g", "0">>, <<"8">>)>>),
      Block(<<"t", "h", "i", "n", "g">>,
            <<Assign(<<"x">>, <<"4", "3">>),
              Assign(<<"y">>, <<"4", "5", "9", ".", "0">>),
              Assign(<<"a", "n", "g", "l", "e">>, <<"3", "0">>),
              Assign(<<"t", "y", "p", "e">>, <<"1">>)>>),
      Block(<<"t", "h", "i", "n", "g">>,
            <<Assign(<<"x">>, <<"4", "3", ".", "0">>),
              Assign(<<"y">>, <<"4", "5", "9", ".", "0">>),
              Assign(<<"a", "n", "g", "l", "e">>, <<"3", "0", ".", "0">>),
              Assign(<<"t", "y", "p", "e">>, <<"1">>)>>),
      Block(<<"t", "h", "i", "n", "g">>,
            <<Assign(<<"x">>, <<"4", "3", ".", "0">>),
              Assign(<<"y">>, <<"\"", "W", "A", "D", "S", "U", "P", "\"">>),
              Assign(<<"a", "n", "g", "l", "e">>, <<"3", "0">>),
              Assign(<<"t", "y", "p", "e">>, <<"t", "r", "u", "e">>)>>),
      Block(<<"t", "h", "i", "n", "g">>,
            <<Assign(<<"x">>, <<"4", "3", ".", "0">>),
              Assign(<<"y">>, <<"4", "5", "9", ".", "0">>),
              Assign(<<"a", "n", "g", "l", "e">>, <<"3", "0">>)>>),
      Block(<<"t", "h", "i", "n", "g">>,
            <<Assign(<<"a", "n", "g", "l", "e">>, <<"3", "0">>),
              Assign(<<"t", "y", "p", "e">>, <<"1">>)>>),
      Block(<<"v", "e", "r", "t", "e", "x">>,
            <<Assign(<<"x">>, <<"4", "3", ".", "0">>),
              Assign(<<"y">>, <<"0", ".", "0">>)>>),
      Block(<<"v", "e", "r", "t", "e", "x">>,
            <<Assign(<<"y">>, <<"4", "5", "9", ".", "0">>),
              Assign(<<"z", "f", "l", "o", "o", "r">>, <<"8", ".", "0">>),
              Assign(<<"x">>, <<"-", "1", ".", "5">>)>>),
      Block(<<"v", "e", "r", "t", "e", "x">>,
            <<Assign(<<"x">>, <<"4", "3">>),
              Assign(<<"y">>, <<"0", ".", "0">>)>>),
      Block(<<"l", "i", "n", "e", "d", "e", "f">>,
            <<Assign(<<"v", "1">>, <<"0">>),
              Assign(<<"v", "2">>, <<"1">>)>>),
      Block(<<"f", "o", "o">>,
            <<>>) }

\* the whitespace between the pieces of a map text; the last one holds a
\* comment
MapGaps == {<<>>, <<" ", "\n", "\t">>, <<" ", "/", "/", "}", "\n">>}

MapDocuments ==
    { [gap |-> g, items |-> is] :
        g \in MapGaps, is \in UNION { [1..k -> MapItems] : k \in 0..MaxItems } }

\* the chars of the texts of lines and comments
LineAlphabet == {"/", "a", "\n", Quote}

LineTexts == UNION { [1..k -> LineAlphabet] : k \in 0..MaxLen }

MapInit ==
    /\ \/ /\ doc \in MapDocuments
          /\ mapText = TextOf(doc)
       \/ /\ doc = NoDoc
          /\ mapText \in LineTexts
    /\ mapCall = "none"
    /\ mapResult = Pending
    /\ input = <<>>
    /\ prevInput = <<>>
    /\ tokCall = "none"
    /\ tokResult = NoTokResult
    /\ decoded = <<>>
    /\ WadIdle

\* the state after the call named call of the map reader returned res
MapReturns(call, res) ==
    /\ mapCall' = call
    /\ mapResult' = res
    /\ UNCHANGED <<mapText, wadVars, tokVars>>

\* preprocess(mapText)
Preprocess == MapReturns("preprocess", Ok(preprocess(mapText)))

\* Map::from_str(mapText)
FromStr == MapReturns("Map::from_str", from_str(mapText))

MapNext == Preprocess \/ FromStr

MapSpec == MapInit /\ [][MapNext]_vars

(***************************************************************************)
(* Properties of the container reader, checked under WadSpec.              *)
(***************************************************************************)
\* from_reader has returned a Wad
Returned == pc = "done"

\* from_reader has returned an error
Failed == pc \in {"err_header", "err_infos", "err_data"}

\* the bytes of the source from offset off, n of them
Bytes(off, n) == SubSeq(source, off + 1, off + n)

\* the directory offset the header bytes state, when it lies in the source
StatedDirOff == CHOOSE d \in 0..Len(source) : LeBytes(d) = Bytes(8, 4)

\* the 16 stored bytes of directory entry i
StoredEntry(i) == Bytes(StatedDirOff + 16 * (i - 1), 16)

\* the bytes of the source a directory entry points at
DataOf(lump_info) ==
    IF lump_info.size = 0 THEN <<>>
    ELSE Bytes(lump_info.file_pos, lump_info.size)

\* C1: on success the directory list and the data list have the same
\* length, that length is the lump count the header bytes declare, and
\* entry i of the data list is the data of directory entry i.
C1_ListsAligned ==
    Returned =>
        /\ wadResult.ok
        /\ Len(lump_infos) = Len(lump_data)
        /\ LeBytes(Len(lump_infos)) = Bytes(4, 4)
        /\ \A i \in 1..Len(lump_infos) : lump_data[i] = DataOf(lump_infos[i])

C1_Witness ==
    /\ Returned
    /\ Len(lump_infos) = 2
    /\ lump_data[1] # <<>>
    /\ lump_data[2] = <<>>

\* the indices of the directory entries whose decoded name is name
Matches(name) == { i \in 1..Len(lump_infos) : lump_infos[i].name = name }

\* C2: Wad::lump(name) returns the entry of the lowest directory index whose
\* name equals name, with the data of that index, also among duplicates,
\* and None exactly when no entry has that name.
C2_LumpFirstMatch ==
    lookup.called =>
        IF Matches(lookup.name) = {}
        THEN ~lookup.res.some
        ELSE LET m == CHOOSE i \in Matches(lookup.name) :
                          \A j \in Matches(lookup.name) : i <= j
             IN  /\ lookup.res.some
                 /\ lookup.res.lump_info = lump_infos[m]
                 /\ lookup.res.lump_data = lump_data[m]

C2_Witness ==
    /\ lookup.called
    /\ lookup.res.some
    /\ Matches(lookup.name) = {1, 2}
    /\ lump_data[1] # lump_data[2]
    /\ lookup.res.lump_data = lump_data[1]

\* the operations the data pass issued on behalf of directory entry i
DataOps(i) ==
    { k \in 1..Len(ioLog) : ioLog[k].pass = "data" /\ ioLog[k].entry = i }

\* C3: a directory entry of size zero gets an empty buffer whatever its
\* offset, and the data pass issues no seek and no read for it.
C3_VirtualLump ==
    \A i \in 1..Len(lump_infos) :
        lump_infos[i].size = 0 =>
            /\ DataOps(i) = {}
            /\ (Returned => lump_data[i] = <<>>)

C3_Witness ==
    /\ Returned
    /\ Len(lump_infos) = 2
    /\ lump_infos[1].size = 0
    /\ lump_infos[1].file_pos > Len(source)
    /\ DataOps(2) # {}

\* some read obtained fewer bytes than it asked for
ShortRead == \E k \in 1..Len(ioLog) : ioLog[k].op = "read" /\ ioLog[k].got < ioLog[k].want

\* C4: when the source ends before a requested read is complete,
\* from_reader fails with UnexpectedEof and no Wad is returned.
C4_ShortReadIsEof ==
    ShortRead =>
        /\ Failed
        /\ wadResult = Err(UnexpectedEof)
        /\ lump_data = <<>>

C4_Witness ==
    /\ pc = "err_data"
    /\ \E k \in 1..Len(ioLog) :
          /\ ioLog[k].op = "read"
          /\ ioLog[k].pass = "data"
          /\ ioLog[k].got > 0
          /\ ioLog[k].got < ioLog[k].want

\* what the lossy decoding of the unknown tags of BadTags is
LossyTag(tag) ==
    IF tag = <<73, 87, 65, 255>> THEN <<73, 87, 65, 239, 191, 189>>
    ELSE IF tag = <<226, 130, 65, 68>> THEN <<239, 191, 189, 65, 68>>
    ELSE tag

\* C5: a source of at least 4 bytes whose first 4 bytes are neither IWAD nor
\* PWAD fails with InvalidWadType carrying those bytes lossily decoded,
\* whatever follows; only IWAD and PWAD get past the tag.
C5_InvalidTag ==
    /\ (pc # "start" /\ Len(source) >= 4 /\ Bytes(0, 4) \notin {IWAD, PWAD}) =>
          /\ pc = "err_header"
          /\ wadResult = Err(InvalidWadType(LossyTag(Bytes(0, 4))))
    /\ (pc \notin {"start", "err_header"}) => Bytes(0, 4) \in {IWAD, PWAD}

C5_Witness ==
    /\ pc = "err_header"
    /\ Len(source) > 12
    /\ wadResult.err.kind = "InvalidWadType"
    /\ wadResult.err.text # Bytes(0, 4)

\* C6: the directory pass and the data pass each leave the cursor where it
\* was when the pass was entered, when they succeed and when they fail.
C6_CursorRestored ==
    [][(pc \in {"header_read", "infos_read"} /\ pc' # "aborted")
          => (cursor' = cursor /\ old_cursor' = cursor)]_vars

C6_Witness ==
    /\ pc = "err_data"
    /\ cursor = 12
    /\ \E k \in 1..Len(ioLog) :
          ioLog[k].op = "read" /\ ioLog[k].pass = "data" /\ ioLog[k].at # cursor
    /\ \E k \in 1..Len(ioLog) :
          ioLog[k].op = "read" /\ ioLog[k].pass = "infos" /\ ioLog[k].at # cursor

\* C7: on success directory entry i is the 16 bytes at directory offset
\* + 16*i, as little-endian offset, little-endian size and 8-byte name, and
\* the data of an entry of nonzero size is the size bytes at its offset.
C7_EntryLayout ==
    Returned =>
        \A i \in 1..Len(lump_infos) :
            /\ \E d \in 0..Len(source) : LeBytes(d) = Bytes(8, 4)
            /\ StatedDirOff + 16 * i <= Len(source)
            /\ LeBytes(lump_infos[i].file_pos) = SubSeq(StoredEntry(i), 1, 4)
            /\ LeBytes(lump_infos[i].size) = SubSeq(StoredEntry(i), 5, 8)
            /\ lump_infos[i].name
                   = SubSeq(StoredEntry(i), 9, 8 + Len(lump_infos[i].name))
            /\ lump_infos[i].size # 0 =>
                   \E at \in 0..Len(source), n \in 1..Len(source) :
                       /\ LeBytes(at) = SubSeq(StoredEntry(i), 1, 4)
                       /\ LeBytes(n) = SubSeq(StoredEntry(i), 5, 8)
                       /\ at + n <= Len(source)
                       /\ lump_data[i] = Bytes(at, n)

C7_Witness ==
    /\ Returned
    /\ Len(lump_infos) = 2
    /\ StatedDirOff # 12
    /\ lump_infos[1].size = 2
    /\ lump_infos[2].size = 2
    /\ lump_infos[2].file_pos < lump_infos[1].file_pos
    /\ lump_infos[1].file_pos < lump_infos[2].file_pos + 2

\* the 8 stored name bytes of directory entry i
StoredName(i) == SubSeq(StoredEntry(i), 9, 16)

\* C8: a lump name is the stored bytes before the first null byte: all 8
\* without a null, none when the first byte is null, and nothing that
\* follows the first null.
C8_NameUpToNull ==
    \A i \in 1..Len(lump_infos) :
        LET name == lump_infos[i].name
        IN  /\ Len(name) <= 8
            /\ name = SubSeq(StoredName(i), 1, Len(name))
            /\ \A j \in 1..Len(name) : name[j] # 0
            /\ Len(name) < 8 => StoredName(i)[Len(name) + 1] = 0

C8_Witness ==
    /\ Len(lump_infos) = 2
    /\ Len(lump_infos[1].name) = 1
    /\ \E j \in 3..8 : StoredName(1)[j] # 0
    /\ lump_infos[2].name = <<>>
    /\ StoredName(2)[2] # 0

(***************************************************************************)
(* Properties of the tokenizer, checked under TokSpec.                     *)
(***************************************************************************)
\* the text the last call started on, without its leading whitespace
Seen ==
    IF \E i \in 1..Len(prevInput) : prevInput[i] \notin AsciiWhitespace
    THEN SubSeq(prevInput,
                CHOOSE i \in 1..Len(prevInput) :
                    /\ prevInput[i] \notin AsciiWhitespace
                    /\ \A j \in 1..(i - 1) : prevInput[j] \in AsciiWhitespace,
                Len(prevInput))
    ELSE <<>>

\* the last call was next_value on a text whose next value opens a string
StringCall == tokCall = "next_value" /\ Seen # <<>> /\ Seen[1] = Quote

\* the positions of Seen, after the opening quote, that hold a quote not
\* immediately preceded by a backslash
ClosingQuotes == { i \in 2..Len(Seen) : Seen[i] = Quote /\ Seen[i - 1] # Backslash }

\* C9: an unterminated string is a hard failure: next_value on a text that
\* opens a string and has no later unescaped quote returns the
\* unquoted-string error.
C9_UnterminatedIsError ==
    (StringCall /\ ClosingQuotes = {}) => tokResult = ErrUnquotedString

\* C9, as far as the code goes: the call never returns a value, and returns
\* the unquoted-string error whenever the text does not end in a quote.
C9_UnterminatedNoValue ==
    (StringCall /\ ClosingQuotes = {}) =>
        /\ ~tokResult.ok
        /\ (Seen[Len(Seen)] # Quote => tokResult = ErrUnquotedString)

\* the opening quote is the last char of the text
C9_LoneQuote == StringCall /\ Len(Seen) = 1 /\ tokResult = TokPanic

\* the only remaining quote is escaped and ends the text
C9_EscapedLast ==
    /\ StringCall
    /\ ClosingQuotes = {}
    /\ Len(Seen) > 2
    /\ Seen[Len(Seen)] = Quote
    /\ tokResult = TokPanic

\* the text between the opening quote and the first closing quote
Enclosed == SubSeq(Seen, 2, (CHOOSE i \in ClosingQuotes : \A j \in ClosingQuotes : i <= j) - 1)

\* the text after the first closing quote
AfterClosing ==
    SubSeq(Seen, (CHOOSE i \in ClosingQuotes : \A j \in ClosingQuotes : i <= j) + 1, Len(Seen))

\* the length of the run of backslashes that ends just before position i
RECURSIVE SlashesBefore(_, _)
SlashesBefore(t, i) ==
    IF i > 1 /\ t[i - 1] = Backslash THEN 1 + SlashesBefore(t, i - 1) ELSE 0

\* position i of t holds a backslash that prefixes the char after it: the
\* backslashes of a run prefix from the left, two by two
Prefixes(t, i) ==
    t[i] = Backslash /\ i < Len(t) /\ SlashesBefore(t, i) % 2 = 0

\* t without the chars at the positions of drop
RECURSIVE Without(_, _, _)
Without(t, drop, i) ==
    IF i > Len(t) THEN <<>>
    ELSE (IF i \in drop THEN <<>> ELSE <<t[i]>>) \o Without(t, drop, i + 1)

\* t with every backslash that prefixes a quote removed
Unescaped(t) ==
    Without(t, { i \in 1..Len(t) : Prefixes(t, i) /\ t[i + 1] = Quote }, 1)

\* C10: for a quoted string next_value stops at the first quote not
\* immediately preceded by a backslash, leaves the cursor just after it,
\* and returns the enclosed text with every backslash-quote pair replaced
\* by a quote and every other backslash-prefixed char kept with its
\* backslash.
C10_StringValue ==
    (StringCall /\ ClosingQuotes # {}) =>
        /\ tokResult = TokOk(ValueString(Unescaped(Enclosed)))
        /\ input = AfterClosing

C10_Witness ==
    /\ StringCall
    /\ ClosingQuotes # {}
    /\ tokResult = TokOk(ValueString(<<Quote, Backslash, "a">>))
    /\ Len(Enclosed) = 4

\* an escaped quote and more text after the closing quote
C10_WitnessRest ==
    /\ StringCall
    /\ tokResult = TokOk(ValueString(<<Quote, "a">>))
    /\ input = <<"1">>

(***************************************************************************)
(* Numeric literals.                                                       *)
(***************************************************************************)
\* the last call was next_value on a text whose next value opens a number
NumberCall == tokCall = "next_value" /\ Seen # <<>> /\ Seen[1] \in Digits \cup {"+", "-"}

\* the literal is written with a minus sign
Minus == Seen[1] = "-"

\* the text after the optional sign
Unsigned == IF Seen[1] \in {"+", "-"} THEN Tail(Seen) ELSE Seen

\* the length of the digit run that opens t
RunLen(t) == CHOOSE k \in 0..Len(t) :
                 /\ \A i \in 1..k : t[i] \in Digits
                 /\ (k < Len(t) => t[k + 1] \notin Digits)

\* the digit run of the literal and the text after it
Run == SubSeq(Unsigned, 1, RunLen(Unsigned))

AfterRun == SubSeq(Unsigned, RunLen(Unsigned) + 1, Len(Unsigned))

\* t without its leading zeros
RECURSIVE Significant(_)
Significant(t) == IF t # <<>> /\ t[1] = "0" THEN Significant(Tail(t)) ELSE t

DigitVal(ch) == CHOOSE n \in 0..9 : ToString(n) = ch

\* a <= b for digit runs of one length
RECURSIVE DigitsLeq(_, _)
DigitsLeq(a, b) ==
    IF a = <<>> THEN TRUE
    ELSE IF a[1] = b[1] THEN DigitsLeq(Tail(a), Tail(b))
    ELSE DigitVal(a[1]) < DigitVal(b[1])

\* the magnitude written by the digit run t is at most 2147483647, or at
\* most 2147483648 when the literal is negative
FitsI32(t, negative) ==
    \/ Len(Significant(t)) < 10
    \/ /\ Len(Significant(t)) = 10
       /\ DigitsLeq(Significant(t),
                    <<"2", "1", "4", "7", "4", "8", "3", "6", "4",
                      IF negative THEN "8" ELSE "7">>)

\* minus the magnitude written by the digit run t
RECURSIVE Negated(_, _)
Negated(t, acc) == IF t = <<>> THEN acc ELSE Negated(Tail(t), 10 * acc - DigitVal(t[1]))

\* the value of the integer literal
LiteralValue == IF Minus THEN Negated(Run, 0) ELSE -Negated(Run, 0)

\* the text opens with an integer literal: a digit run not followed by '.'
IntegerLiteral ==
    /\ NumberCall
    /\ Run # <<>>
    /\ (AfterRun = <<>> \/ AfterRun[1] # ".")

\* C11: for every decimal literal made of an optional sign and a digit run
\* not followed by '.', whose value lies in -2147483648..2147483647,
\* next_value returns Integer of that value, the sign applied to the whole
\* literal, and leaves the cursor just after the last digit.
C11_IntegerLiteral ==
    (IntegerLiteral /\ FitsI32(Run, Minus)) =>
        /\ tokResult = TokOk(ValueInteger(LiteralValue))
        /\ input = AfterRun

\* the least i32, written out: the digits alone do not fit an i32
C11_MinInt ==
    /\ IntegerLiteral
    /\ Minus
    /\ Run = <<"2", "1", "4", "7", "4", "8", "3", "6", "4", "8">>
    /\ tokResult = ErrUnexpectedChar("2")
    /\ input = Unsigned

\* C11 on every literal but the least i32
C11_AboveMinInt ==
    (IntegerLiteral /\ FitsI32(Run, FALSE)) =>
        /\ tokResult = TokOk(ValueInteger(LiteralValue))
        /\ input = AfterRun

\* the text opens with a float literal: a digit run followed by '.'
FloatLiteral ==
    /\ NumberCall
    /\ Run # <<>>
    /\ AfterRun # <<>>
    /\ AfterRun[1] = "."

\* the digits after the point, and the text after them
Fraction == SubSeq(AfterRun, 2, 1 + RunLen(Tail(AfterRun)))

AfterFraction == SubSeq(AfterRun, 2 + RunLen(Tail(AfterRun)), Len(AfterRun))

\* an exponent part follows the mantissa: 'e' or 'E', an optional sign, digits
ExponentText == IF AfterFraction # <<>> /\ AfterFraction[1] \in {"e", "E"}
                THEN Tail(AfterFraction) ELSE <<>>

ExponentMinus == ExponentText # <<>> /\ ExponentText[1] = "-"

ExponentUnsigned ==
    IF ExponentText # <<>> /\ ExponentText[1] \in {"+", "-"} THEN Tail(ExponentText)
    ELSE ExponentText

ExponentRun == SubSeq(ExponentUnsigned, 1, RunLen(ExponentUnsigned))

HasExponent == ExponentRun # <<>>

\* the literal is a mantissa alone, or a mantissa and a whole exponent part
\* of at most three significant digits
WholeFloat ==
    /\ FloatLiteral
    /\ (AfterFraction # <<>> /\ AfterFraction[1] \in {"e", "E"}) => HasExponent
    /\ Len(Significant(ExponentRun)) <= 3

\* the signed exponent, 0 without an exponent part
ExponentValue == IF ExponentMinus THEN Negated(ExponentRun, 0) ELSE -Negated(ExponentRun, 0)

\* the text after the whole literal
AfterFloat ==
    IF HasExponent
    THEN SubSeq(ExponentUnsigned, Len(ExponentRun) + 1, Len(ExponentUnsigned))
    ELSE AfterFraction

\* the number of zeros that end t
TrailingZeros(t) == CHOOSE k \in 0..Len(t) :
                        /\ \A i \in (Len(t) - k + 1)..Len(t) : t[i] = "0"
                        /\ (k < Len(t) => t[Len(t) - k] # "0")

\* the mantissa times ten to the exponent is Coefficient * 10^Scale, the
\* coefficient written without leading or trailing zeros
AllDigits == Significant(Run \o Fraction)

Coefficient == SubSeq(AllDigits, 1, Len(AllDigits) - TrailingZeros(AllDigits))

Scale == ExponentValue - Len(Fraction) + TrailingZeros(AllDigits)

\* the value is 0 or lies between 1e-37 and 1e38, inside the range of the
\* normal f32 numbers
InF32Range ==
    \/ Coefficient = <<>>
    \/ /\ Len(Coefficient) + Scale - 1 >= -37
       /\ Len(Coefficient) + Scale - 1 <= 37

\* the last call returned the Float the literal writes
ReturnsLiteral ==
    /\ tokResult.ok
    /\ tokResult.val.kind = "Float"
    /\ tokResult.val.text = Coefficient
    /\ (Coefficient # <<>> => tokResult.val.num = Scale /\ tokResult.val.neg = Minus)
    /\ input = AfterFloat

\* C12: a numeric literal whose digit run is immediately followed by '.' is
\* decoded as a Float equal to the signed mantissa times 10 to the signed
\* exponent, the exponent part being optional.
C12_FloatLiteral == (WholeFloat /\ InF32Range) => ReturnsLiteral

\* 1000.0e-39 is 1e-36; the power of ten is computed first and is 0
C12_PowerUnderflow ==
    /\ WholeFloat
    /\ InF32Range
    /\ Coefficient = <<"1">>
    /\ Scale = -36
    /\ ExponentValue = -39
    /\ tokResult = TokOk(ValueFloat(FALSE, <<>>, 0))

\* C12 on the literals whose exponent is at most 38 in magnitude
C12_SmallExponent ==
    (WholeFloat /\ InF32Range /\ ExponentValue <= 38 /\ ExponentValue >= -38) => ReturnsLiteral

\* the literals of the tests: 4.2, +8.1, -4.0, 2.0E-1, 4.0E9, -2.0E-2
C12_Tests ==
    /\ tokCall = "next_value" =>
        /\ Seen = <<"4", ".", "2">> => tokResult = TokOk(ValueFloat(FALSE, <<"4", "2">>, -1))
        /\ Seen = <<"+", "8", ".", "1", " ">> => tokResult = TokOk(ValueFloat(FALSE, <<"8", "1">>, -1))
        /\ Seen = <<"-", "4", ".", "0", ";">> => tokResult = TokOk(ValueFloat(TRUE, <<"4">>, 0))
        /\ Seen = <<"2", ".", "0", "E", "-", "1">> => tokResult = TokOk(ValueFloat(FALSE, <<"2">>, -1))
        /\ Seen = <<"4", ".", "0", "E", "9", ";">> => tokResult = TokOk(ValueFloat(FALSE, <<"4">>, 9))
        /\ Seen = <<"-", "2", ".", "0", "E", "-", "2">> => tokResult = TokOk(ValueFloat(TRUE, <<"2">>, -2))

(***************************************************************************)
(* Properties of the parser and the bridge, checked under ParserSpec.      *)
(***************************************************************************)
\* t without its leading whitespace
Trimmed(t) ==
    IF \E i \in 1..Len(t) : t[i] \notin AsciiWhitespace
    THEN SubSeq(t, CHOOSE i \in 1..Len(t) :
                       /\ t[i] \notin AsciiWhitespace
                       /\ \A j \in 1..(i - 1) : t[j] \in AsciiWhitespace,
                Len(t))
    ELSE <<>>

\* t opens with a hex literal: 0x and a hex digit
HexLiteral(t) ==
    /\ Len(t) >= 3
    /\ t[1] = "0"
    /\ t[2] = "x"
    /\ t[3] \in Digits \cup {"A", "B", "C", "D", "E", "F", "a", "b", "c", "d", "e", "f"}

\* the hex literal that opens t is still in rest, but for its first char at most
LiteralLeft(t, rest) == Len(rest) >= Len(t) - 1

\* C13: no hex-integer literal is accepted at the default numeric entry
\* point: on 0x followed by hex digits next_value does not succeed with a
\* value for the literal, and an assignment of such a literal does not
\* decode to an Integer.
C13_NoHexLiteral ==
    /\ (tokCall = "next_value" /\ HexLiteral(Seen)) =>
           (tokResult.ok => (LiteralLeft(Seen, input) /\ tokResult.val = ValueInteger(0)))
    /\ (tokCall = "Parser::next_value" /\ Seen # <<>> /\ Seen[1] = "="
            /\ HexLiteral(Trimmed(Tail(Seen)))) => ~tokResult.ok

\* key = 0x005A; fails on the x that follows the 0
C13_Witness ==
    /\ tokCall = "Parser::next_value"
    /\ Seen # <<>>
    /\ Seen[1] = "="
    /\ Trimmed(Tail(Seen)) = <<"0", "x", "0", "0", "5", "A", ";">>
    /\ tokResult = ErrExpectedSeperator

\* next_value on 0x005A reads the 0 alone
C13_WitnessValue ==
    /\ tokCall = "next_value"
    /\ HexLiteral(Seen)
    /\ tokResult = TokOk(ValueInteger(0))
    /\ input = Tail(Seen)

(***************************************************************************)
(* Keywords, checked under TokSpec.                                        *)
(***************************************************************************)
\* the last call was next_value on a text whose next value opens with
\* neither a quote, a digit nor a sign
KeywordCall ==
    /\ tokCall = "next_value"
    /\ Seen # <<>>
    /\ Seen[1] \notin {Quote, "+", "-"} \cup Digits

\* the structural symbols, the quote and the whitespace chars
Structural == {"=", ";", "{", "}"}

RunEnd == Structural \cup {Quote} \cup AsciiWhitespace

\* the length of the maximal run of chars of Seen up to the first char of ends
RunUpTo(ends) == CHOOSE k \in 0..Len(Seen) :
                     /\ \A i \in 1..k : Seen[i] \notin ends
                     /\ (k < Len(Seen) => Seen[k + 1] \in ends)

KeywordRun == SubSeq(Seen, 1, RunUpTo(RunEnd))

\* C14: when the next value starts with neither a quote, a digit nor a
\* sign, next_value takes the maximal run of chars up to the first
\* structural symbol, quote or whitespace char, returns Boolean(true) for
\* true, Boolean(false) for false, and fails with InvalidKeyword carrying
\* exactly that run for every other run.
C14_KeywordRun ==
    KeywordCall =>
        /\ input = SubSeq(Seen, RunUpTo(RunEnd) + 1, Len(Seen))
        /\ tokResult = IF KeywordRun = <<"t", "r", "u", "e">> THEN TokOk(ValueBoolean(TRUE))
                       ELSE IF KeywordRun = <<"f", "a", "l", "s", "e">> THEN TokOk(ValueBoolean(FALSE))
                       ELSE ErrInvalidKeyword(KeywordRun)

\* true followed by '=': the run of the code goes on through the '='
C14_EqualsInRun ==
    /\ KeywordCall
    /\ Seen = <<"t", "r", "u", "e", "=">>
    /\ tokResult = ErrInvalidKeyword(<<"t", "r", "u", "e", "=">>)

\* true followed by a carriage return: the run of the code goes on through it
C14_ReturnInRun ==
    /\ KeywordCall
    /\ Seen = <<"t", "r", "u", "e", "\r">>
    /\ tokResult = ErrInvalidKeyword(<<"t", "r", "u", "e", "\r">>)

\* C14 on the texts where the run of the claim and the run of the code end
\* at the same char
C14_SameRun ==
    (KeywordCall /\ RunUpTo(RunEnd) = RunUpTo(KeywordEnd)) =>
        /\ input = SubSeq(Seen, RunUpTo(RunEnd) + 1, Len(Seen))
        /\ tokResult = IF KeywordRun = <<"t", "r", "u", "e">> THEN TokOk(ValueBoolean(TRUE))
                       ELSE IF KeywordRun = <<"f", "a", "l", "s", "e">> THEN TokOk(ValueBoolean(FALSE))
                       ELSE ErrInvalidKeyword(KeywordRun)

(***************************************************************************)
(* nil, checked under ParserSpec.                                          *)
(***************************************************************************)
\* t is the rest of an assignment of a bare nil: '=', nil, ';'
NilAssignment(t) ==
    /\ t # <<>>
    /\ t[1] = "="
    /\ Len(Trimmed(Tail(t))) >= 4
    /\ SubSeq(Trimmed(Tail(t)), 1, 3) = <<"n", "i", "l">>
    /\ Trimmed(SubSeq(Trimmed(Tail(t)), 4, Len(Trimmed(Tail(t))))) # <<>>
    /\ Trimmed(SubSeq(Trimmed(Tail(t)), 4, Len(Trimmed(Tail(t)))))[1] = ";"

\* C15: a bare nil is a valid value of the format: an assignment
\* key = nil; decodes successfully to the Nil value.
C15_NilDecodes ==
    (tokCall = "Parser::next_value" /\ NilAssignment(Seen)) => tokResult = TokOk(ValueNil)

\* key = nil; fails on the keyword
C15_NilRejected ==
    /\ tokCall = "Parser::next_value"
    /\ NilAssignment(Seen)
    /\ tokResult = ErrInvalidKeyword(<<"n", "i", "l">>)

\* no call of the tokenizer or of the parser returns the Nil value
C15_NeverNil == tokResult.val.kind # "Nil" /\ \A i \in 1..Len(decoded) : decoded[i].val.kind # "Nil"

(***************************************************************************)
(* next_token, checked under TokSpec.                                      *)
(***************************************************************************)
TokenCall == tokCall = "next_token"

\* the token a structural symbol stands for
SymbolToken(ch) ==
    TokenOf(CASE ch = "=" -> "Assignment"
              [] ch = ";" -> "Seperator"
              [] ch = "{" -> "StartBlock"
              [] ch = "}" -> "EndBlock")

\* letters, digits and the underscore
Letters == IdentChars \ (Digits \cup {"_"})

WordChars == Letters \cup Digits \cup {"_"}

\* the length of the maximal run of word chars the text t starts with
WordLen(t) ==
    CHOOSE n \in 0..Len(t) :
        /\ \A i \in 1..n : t[i] \in WordChars
        /\ n < Len(t) => t[n + 1] \notin WordChars

\* the pieces of the document, in source order
Pieces == Flatten(doc.items)

\* the text of the document from its piece k + 1 on
PieceText(k) == doc.gap \o Spaced(SubSeq(Pieces, k + 1, Len(Pieces)), doc.gap)

\* piece k is a token and not a value: it does not follow a '='
TokenPiece(k) == k = 1 \/ Pieces[k - 1] # <<"=">>

\* the token the piece p is
PieceToken(p) == IF p[1] \in Structural THEN SymbolToken(p[1]) ELSE TokenIdent(p)

\* C16: next_token skips the leading whitespace; on = ; { } it returns
\* Assignment, Seperator, StartBlock, EndBlock and consumes that one char; on
\* a letter or an underscore it returns Ident of the maximal run of letters,
\* digits and underscores and consumes the run; and called where token k + 1
\* of a well-formed document starts, whatever whitespace lies between the
\* pieces, it returns that token and stops where the next piece starts.
C16_NextToken ==
    TokenCall =>
        /\ (Seen # <<>> /\ Seen[1] \in Structural) =>
               /\ tokResult = TokOk(SymbolToken(Seen[1]))
               /\ input = Tail(Seen)
        /\ (Seen # <<>> /\ Seen[1] \in Letters \cup {"_"}) =>
               /\ tokResult = TokOk(TokenIdent(SubSeq(Seen, 1, WordLen(Seen))))
               /\ input = SubSeq(Seen, WordLen(Seen) + 1, Len(Seen))
        /\ \A k \in 1..Len(Pieces) :
               (prevInput = PieceText(k - 1) /\ TokenPiece(k)) =>
                   /\ tokResult = TokOk(PieceToken(Pieces[k]))
                   /\ input = PieceText(k)

\* an identifier with a digit in it, read after whitespace and up to a symbol
C16_Witness ==
    /\ TokenCall
    /\ prevInput # <<>>
    /\ prevInput[1] \in AsciiWhitespace
    /\ tokResult = TokOk(TokenIdent(<<"b", "1">>))
    /\ input # <<>>
    /\ input[1] \in AsciiWhitespace \cup Structural

\* the closing brace of a block of two entries, the last piece of its document
C16_WitnessOrder ==
    /\ TokenCall
    /\ Len(Pieces) >= 11
    /\ prevInput = PieceText(10)
    /\ Len(doc.gap) = 2
    /\ tokResult = TokOk(TokenOf("EndBlock"))

(***************************************************************************)
(* The end of the input, checked under ParserSpec.                         *)
(***************************************************************************)
KeyCall == tokCall = "Parser::next_key"

\* Error::is_eof
IsEof(r) == ~r.ok /\ r.err.kind = "Eof"

\* C17: where nothing or only whitespace remains, next_token fails with the
\* end-of-input kind and Parser::next_key returns Ok(None); where the first
\* char after the whitespace is neither a structural symbol nor a letter
\* nor an underscore, both fail with UnexpectedChar of that char.
C17_EndOfInput ==
    /\ (TokenCall /\ Seen = <<>>) => IsEof(tokResult)
    /\ (KeyCall /\ Seen = <<>>) => tokResult = TokOk(KeyNone)
    /\ ((TokenCall \/ KeyCall) /\ Seen # <<>> /\ Seen[1] \notin Structural \cup Letters \cup {"_"}) =>
           /\ tokResult = ErrUnexpectedChar(Seen[1])
           /\ ~IsEof(tokResult)

\* next_key returns None at the end of a document of two items that ends
\* in whitespace
C17_Witness ==
    /\ KeyCall
    /\ Len(doc.items) = 2
    /\ prevInput # <<>>
    /\ Seen = <<>>
    /\ tokResult = TokOk(KeyNone)

\* next_token fails with Eof on whitespace alone
C17_WitnessToken == TokenCall /\ prevInput # <<>> /\ Seen = <<>> /\ IsEof(tokResult)

\* next_key fails on a char that starts no token
C17_WitnessChar ==
    /\ KeyCall
    /\ prevInput # <<>>
    /\ prevInput[1] \in AsciiWhitespace
    /\ tokResult = ErrUnexpectedChar("#")

(***************************************************************************)
(* The top level of the bridge, checked under ParserSpec.                  *)
(***************************************************************************)
ValueCall == tokCall = "Parser::next_value"

\* position p of the text t lies outside every string: an even number of
\* quotes not preceded by a backslash stand before it
Outside(t, p) ==
    Cardinality({ q \in 1..(p - 1) : t[q] = Quote /\ (q = 1 \/ t[q - 1] # Backslash) }) % 2 = 0

\* the chars of Seen the call consumed
Consumed == Len(Seen) - Len(input)

\* what next_value reads after the '=' Seen starts with
ScalarRead == NextValueOp(Tail(Seen))

\* the rest after that value, without its leading whitespace
AfterScalar == Trimmed(ScalarRead.input)

\* the call decodes a scalar: a '=' and a value the tokenizer accepts
ScalarCall == ValueCall /\ Seen # <<>> /\ Seen[1] = "=" /\ ScalarRead.res.ok

\* the call decodes a block
BlockCall == ValueCall /\ Seen # <<>> /\ Seen[1] = "{"

C18_WitnessSeperator == ScalarCall /\ tokResult = ErrExpectedSeperator

\* a value followed by nothing
C18_WitnessEof == ScalarCall /\ AfterScalar = <<>> /\ IsEof(tokResult)

\* a block of three entries is decoded and the cursor is at the next item
C18_WitnessBlock ==
    /\ BlockCall
    /\ tokResult = TokOk(ValueBlock(3))
    /\ Len(doc.items) = 2
    /\ input = TextFrom(doc, 1)
    /\ decoded[2].key = <<"a">>
    /\ decoded[3].val.kind = "Float"

(***************************************************************************)
(* The blocks of the bridge, checked under ParserSpec.                     *)
(***************************************************************************)
\* what the decode of a block returns, step by step, from the text t after
\* the '{' or after an entry; n entries were read so far
RECURSIVE BlockExpect(_, _)
RECURSIVE EntryExpect(_, _)
RECURSIVE ValueExpect(_, _)
RECURSIVE EndExpect(_, _)
BlockExpect(t, n) ==
    With(NextTokenOp(t),
         LAMBDA k : IF ~k.res.ok THEN k.res
                    ELSE IF k.res.val.kind = "EndBlock" THEN TokOk(ValueBlock(n))
                    ELSE IF k.res.val.kind = "Ident" THEN EntryExpect(k.input, n)
                    ELSE ErrMessage("unexpected token"))

\* after the identifier of an entry
EntryExpect(t, n) ==
    With(NextTokenOp(t),
         LAMBDA a : IF ~a.res.ok THEN a.res
                    ELSE IF a.res.val.kind = "Assignment" THEN ValueExpect(a.input, n)
                    ELSE ErrMessage("expected assignment token"))

\* after the '=' of an entry
ValueExpect(t, n) ==
    With(NextValueOp(t), LAMBDA v : IF ~v.res.ok THEN v.res ELSE EndExpect(v.input, n))

\* after the value of an entry
EndExpect(t, n) ==
    With(NextTokenOp(t),
         LAMBDA e : IF ~e.res.ok THEN e.res
                    ELSE IF e.res.val.kind = "Seperator" THEN BlockExpect(e.input, n + 1)
                    ELSE ErrExpectedSeperator)

\* Seen holds a '}' outside every string
HasClosing == \E p \in 1..Len(Seen) : Seen[p] = "}" /\ Outside(Seen, p)

\* C19: the decode of a block reads one token per step: after an identifier
\* the next token must be '=', else the decode fails with "expected
\* assignment token"; '}' ends the block; '=', ';' and '{' fail with
\* "unexpected token"; a value followed by a token that is no ';' fails with
\* ExpectedSeperator; where a token or a value cannot be read the decode
\* fails as the tokenizer does. A text without a closing '}' is never
\* decoded, and the end of the input is a failure of the decode.
C19_Block ==
    BlockCall =>
        /\ tokResult = BlockExpect(Tail(Seen), 0)
        /\ ~HasClosing => ~tokResult.ok
        /\ IsEof(tokResult) => input = <<>>

\* the input ends inside a block, after an entry
C19_Witness ==
    /\ BlockCall
    /\ IsEof(tokResult)
    /\ \E p \in 1..Len(Seen) : Seen[p] = ";"
    /\ ~HasClosing

\* an identifier followed by a token that is no '='
C19_WitnessAssignment == BlockCall /\ tokResult = ErrMessage("expected assignment token")

\* a '{' where a key or '}' is due, after an entry
C19_WitnessStartBlock ==
    /\ BlockCall
    /\ tokResult = ErrMessage("unexpected token")
    /\ input # <<>>
    /\ Seen[Consumed] = "{"
    /\ Consumed > 5

\* a ';' there
C19_WitnessSeperator ==
    /\ BlockCall
    /\ tokResult = ErrMessage("unexpected token")
    /\ Seen[Consumed] = ";"
    /\ Consumed > 5

\* a '=' there
C19_WitnessEquals ==
    /\ BlockCall
    /\ tokResult = ErrMessage("unexpected token")
    /\ Seen[Consumed] = "="
    /\ Consumed > 5

\* a value of a block followed by '}'
C19_WitnessValueEnd == BlockCall /\ tokResult = ErrExpectedSeperator /\ Seen[Consumed] = "}"

\* a value of a block followed by a key
C19_WitnessValueKey == BlockCall /\ tokResult = ErrExpectedSeperator /\ Seen[Consumed] = "y"

(***************************************************************************)
(* A document read item by item, checked under ParserSpec.                 *)
(***************************************************************************)
\* the document is well-formed
WellFormed == doc \in Documents

\* the text of the document after the key of its item i + 1
AfterKey(i) ==
    doc.gap \o Spaced(Tail(doc.items[i + 1])
                          \o Flatten(SubSeq(doc.items, i + 2, Len(doc.items))),
                      doc.gap)

\* C20: in a well-formed document, next_key called where item i + 1 starts
\* returns its key and stops after the key, next_value called there decodes
\* the item and stops where item i + 2 starts, and next_key called after the
\* last item returns None.
C20_Alternation ==
    WellFormed =>
        \A i \in 0..Len(doc.items) :
            /\ (KeyCall /\ prevInput = TextFrom(doc, i) /\ i < Len(doc.items)) =>
                   /\ tokResult = TokOk(KeySome(doc.items[i + 1][1]))
                   /\ input = AfterKey(i)
            /\ (KeyCall /\ prevInput = TextFrom(doc, i) /\ i = Len(doc.items)) =>
                   tokResult = TokOk(KeyNone)
            /\ (ValueCall /\ i < Len(doc.items) /\ prevInput = AfterKey(i)) =>
                   /\ tokResult.ok
                   /\ input = TextFrom(doc, i + 1)

\* the first item of a document of two is a = nil; and its decode fails,
\* the cursor short of the second item
C20_NilItem ==
    /\ WellFormed
    /\ Len(doc.items) = 2
    /\ ValueCall
    /\ prevInput = AfterKey(0)
    /\ tokResult = ErrInvalidKeyword(<<"n", "i", "l">>)
    /\ input # TextFrom(doc, 1)

\* the same with the least integer as the value
C20_MinIntItem ==
    /\ WellFormed
    /\ Len(doc.items) = 2
    /\ ValueCall
    /\ prevInput = AfterKey(0)
    /\ tokResult = ErrUnexpectedChar("2")
    /\ input # TextFrom(doc, 1)

\* the same with true, a carriage return and a line feed before the ';'
C20_ReturnItem ==
    /\ WellFormed
    /\ Len(doc.items) = 2
    /\ ValueCall
    /\ prevInput = AfterKey(0)
    /\ tokResult = ErrInvalidKeyword(<<"t", "r", "u", "e", "\r">>)
    /\ input # TextFrom(doc, 1)

\* after the failed decode of a = nil; the next key is not found
C20_KeyLost ==
    /\ WellFormed
    /\ Len(doc.items) = 2
    /\ KeyCall
    /\ Len(prevInput) < Len(AfterKey(0))
    /\ Len(prevInput) > Len(TextFrom(doc, 1))
    /\ ~tokResult.ok

\* the item holds no nil and no least integer, and no keyword that a
\* carriage return follows
Sound(item) ==
    \A p \in 1..Len(item) :
        /\ item[p] # <<"n", "i", "l">>
        /\ item[p] # MinI32Text
        /\ item[p] \in {<<"t", "r", "u", "e">>, <<"f", "a", "l", "s", "e">>} =>
               (doc.gap = <<>> \/ doc.gap[1] # "\r")

\* the same statement for the documents whose items are all sound
C20_SoundItems ==
    (WellFormed /\ \A i \in 1..Len(doc.items) : Sound(doc.items[i])) => C20_Alternation

(***************************************************************************)
(* Calls that abort: the parser under ParserSpec, the container reader     *)
(* under WadSpec.                                                          *)
(***************************************************************************)
\* the last call ended in a panic
Aborted == ~tokResult.ok /\ tokResult.err.kind = "panic"

\* C29: every Parser::next_key and Parser::next_value call returns a value
\* or an error value and never aborts; after a top-level key a token that
\* is neither '=' nor '{' gives an error value.
C29_NeverAborts == (KeyCall \/ ValueCall) => ~Aborted

\* next_value on a ';', a '}' or an identifier where '=' or '{' is due
C29_Todo ==
    /\ ValueCall
    /\ Seen # <<>>
    /\ Seen[1] \in {";", "}", "a"}
    /\ tokResult = TodoPanic

\* next_value aborts only there and on the unterminated strings that end
\* in a quote
C29_OnlyTodo ==
    (ValueCall /\ Aborted) =>
        \/ Seen # <<>> /\ Seen[1] \in ({";", "}"} \cup Letters \cup {"_"}) /\ tokResult = TodoPanic
        \/ tokResult = TokPanic /\ Seen[Len(Seen)] = Quote

\* C30: Wad::from_reader returns a Wad or an error value for every byte
\* source and never aborts.
C30_NeverAborts == pc # "aborted"

\* a directory entry whose size has the top bit set: the data pass aborts
C30_NegativeSize ==
    /\ pc = "aborted"
    /\ \E i \in 1..Len(lump_infos) : lump_infos[i].size < 0

\* the reader aborts only on such a size; a negative count or offset ends
\* in an error value
C30_OnlySize ==
    /\ pc = "aborted" => \E i \in 1..Len(lump_infos) : lump_infos[i].size < 0
    /\ Returned => \A i \in 1..Len(lump_infos) : lump_infos[i].size >= 0

(***************************************************************************)
(* Progress of the tokenizer, checked under TokSpec.                       *)
(***************************************************************************)
\* a is what is left of b after some chars were taken from its front
IsSuffix(a, b) == Len(a) <= Len(b) /\ a = SubSeq(b, Len(b) - Len(a) + 1, Len(b))

\* C28: after a next_token or next_value call the remaining input is a
\* suffix of the remaining input before the call, and a strictly shorter one
\* when the call succeeded; peek_token leaves the input as it was. The
\* lengths of the remaining input before the successful calls of a loop
\* strictly decrease, so there are at most as many as the input has chars.
C28_Progress ==
    /\ tokCall \in {"next_token", "next_value"} =>
           /\ IsSuffix(input, prevInput)
           /\ tokResult.ok => Len(input) < Len(prevInput)
    /\ tokCall = "peek_token" => input = prevInput

\* a successful next_token after a successful next_value, input left over
C28_Witness ==
    /\ TokenCall
    /\ tokResult.ok
    /\ doc # NoDoc
    /\ Len(prevInput) < Len(TextOf(doc)) - 3
    /\ IsSuffix(prevInput, TextOf(doc))
    /\ input # <<>>
    /\ Len(input) < Len(prevInput)

\* peek_token sees a token and takes nothing
C28_WitnessPeek == tokCall = "peek_token" /\ tokResult.ok /\ input = prevInput /\ input # <<>>

\* a failed next_value that has consumed chars
C28_WitnessFailed ==
    /\ tokCall = "next_value"
    /\ ~tokResult.ok
    /\ Len(input) < Len(prevInput)
    /\ input # <<>>

\* the same for the two calls of the parser, Ok(None) of next_key apart
\* (checked under ParserSpec)
C28_Parser ==
    (KeyCall \/ ValueCall) =>
        /\ IsSuffix(input, prevInput)
        /\ (tokResult.ok /\ tokResult.val # KeyNone) => Len(input) < Len(prevInput)

(***************************************************************************)
(* Properties of the map reader, checked under MapSpec.                    *)
(***************************************************************************)
FromStrCall == mapCall = "Map::from_str" /\ mapText = TextOf(doc)

\* Map::from_str returned a Map
Decoded == FromStrCall /\ mapResult.ok

\* an item is a top-level assignment or a block
IsAssign(item) == item[2] = <<"=">>

IsBlock(item) == item[2] = <<"{">>

\* the fields of a block, in source order: names and the texts of the values
Fields(item) ==
    [j \in 1..((Len(item) - 3) \div 4) |-> [key |-> item[4 * j - 1], text |-> item[4 * j + 1]]]

HasField(item, name) == \E j \in DOMAIN Fields(item) : Fields(item)[j].key = name

\* the text of the value of the field name, the last one when it is
\* written several times
FieldText(item, name) ==
    Fields(item)[CHOOSE j \in DOMAIN Fields(item) :
                     /\ Fields(item)[j].key = name
                     /\ \A k \in (j + 1)..Len(Fields(item)) : Fields(item)[k].key # name].text

\* the values the literals of the texts stand for
Lit(text) ==
    CASE text = <<"7">> -> ValueInteger(7)
      [] text = <<"8">> -> ValueInteger(8)
      [] text = <<"2">> -> ValueInteger(2)
      [] text = <<"1">> -> ValueInteger(1)
      [] text = <<"0">> -> ValueInteger(0)
      [] text = <<"3", "0">> -> ValueInteger(30)
      [] text = <<"4", "3">> -> ValueInteger(43)
      [] text = <<"4", "3", ".", "0">> -> ValueFloat(FALSE, <<"4", "3">>, 0)
      [] text = <<"4", "5", "9", ".", "0">> -> ValueFloat(FALSE, <<"4", "5", "9">>, 0)
      [] text = <<"3", "0", ".", "0">> -> ValueFloat(FALSE, <<"3">>, 1)
      [] text = <<"8", ".", "0">> -> ValueFloat(FALSE, <<"8">>, 0)
      [] text = <<"0", ".", "0">> -> ValueFloat(FALSE, <<>>, 0)
      [] text = <<"-", "1", ".", "5">> -> ValueFloat(TRUE, <<"1", "5">>, -1)
      [] text = <<"4", ".", "0", "E", "9">> -> ValueFloat(FALSE, <<"4">>, 9)
      [] text = <<"t", "r", "u", "e">> -> ValueBool(TRUE)
      [] text = <<Quote, "W", "A", "D", "S", "U", "P", Quote>> -> ValueString(<<"W", "A", "D", "S", "U", "P">>)
      [] text = <<Quote, "s", "r", "b", "2", Quote>> -> ValueString(<<"s", "r", "b", "2">>)

\* the name of the kind of a value, as the failures carry it
KindName(v) ==
    CASE v.kind = "Integer" -> "integer"
      [] v.kind = "Float" -> "float"
      [] v.kind = "String" -> "string"
      [] v.kind = "Bool" -> "boolean"

\* the fields a thing and a vertex are made of, in the order they are
\* taken: name, kind, and whether the field may be absent
ThingFields ==
    << [name |-> <<"x">>, kind |-> "Float", optional |-> FALSE],
       [name |-> <<"y">>, kind |-> "Float", optional |-> FALSE],
       [name |-> <<"h", "e", "i", "g", "h", "t">>, kind |-> "Float", optional |-> TRUE],
       [name |-> <<"a", "n", "g", "l", "e">>, kind |-> "Integer", optional |-> FALSE],
       [name |-> <<"t", "y", "p", "e">>, kind |-> "Integer", optional |-> FALSE] >>

VertexFields == SubSeq(ThingFields, 1, 2)

IsThing(item) == IsBlock(item) /\ item[1] = <<"t", "h", "i", "n", "g">>

IsVertex(item) == IsBlock(item) /\ item[1] = <<"v", "e", "r", "t", "e", "x">>

TargetFields(item) ==
    IF IsThing(item) THEN ThingFields ELSE IF IsVertex(item) THEN VertexFields ELSE <<>>

\* the field f of the item is of another kind than its target
Mistyped(item, f) == HasField(item, f.name) /\ Lit(FieldText(item, f.name)).kind # f.kind

\* the field f of the item is mandatory and not there
Lacking(item, f) == ~f.optional /\ ~HasField(item, f.name)

\* the item has a field that fails it
Faulty(item) ==
    \E j \in DOMAIN TargetFields(item) :
        Mistyped(item, TargetFields(item)[j]) \/ Lacking(item, TargetFields(item)[j])

\* the first field that fails the item
FirstFault(item) ==
    TargetFields(item)[CHOOSE j \in DOMAIN TargetFields(item) :
        /\ Mistyped(item, TargetFields(item)[j]) \/ Lacking(item, TargetFields(item)[j])
        /\ \A k \in 1..(j - 1) :
               ~Mistyped(item, TargetFields(item)[k]) /\ ~Lacking(item, TargetFields(item)[k])]

\* the first item of the document that a field fails
FirstFaulty ==
    doc.items[CHOOSE i \in 1..Len(doc.items) :
                  /\ Faulty(doc.items[i])
                  /\ \A k \in 1..(i - 1) : ~Faulty(doc.items[k])]

\* every literal of the document is one the grammar of the reader takes:
\* none is written with an exponent
Readable ==
    \A i \in 1..Len(doc.items) : \A p \in 1..Len(doc.items[i]) :
        \A q \in 1..Len(doc.items[i][p]) : doc.items[i][p][q] # "E"

\* C21: a thing or vertex field of another kind than its target fails the
\* decode, whatever else the text holds: no Map is returned, an Integer is
\* never taken for a Float nor a Float for an Integer. When that field is
\* the first one in the text to fail, the failure is InvalidType with the
\* name of the kind of the value that is there.
C21_InvalidType ==
    FromStrCall =>
        /\ (\E i \in 1..Len(doc.items) : \E j \in DOMAIN TargetFields(doc.items[i]) :
                Mistyped(doc.items[i], TargetFields(doc.items[i])[j])) => ~mapResult.ok
        /\ (/\ Readable
            /\ \E i \in 1..Len(doc.items) : Faulty(doc.items[i])
            /\ Mistyped(FirstFaulty, FirstFault(FirstFaulty))) =>
               mapResult = Err(InvalidType(KindName(Lit(FieldText(FirstFaulty, FirstFault(FirstFaulty).name)))))

\* x = 43; in a thing that follows a sound item: InvalidType("integer")
C21_Witness ==
    /\ FromStrCall
    /\ Len(doc.items) = 2
    /\ ~Faulty(doc.items[1])
    /\ IsThing(doc.items[2])
    /\ HasField(doc.items[2], <<"x">>)
    /\ FieldText(doc.items[2], <<"x">>) = <<"4", "3">>
    /\ mapResult = Err(InvalidType("integer"))

\* a Float where an Integer is due
C21_WitnessFloat ==
    /\ FromStrCall
    /\ Len(doc.items) = 1
    /\ IsThing(doc.items[1])
    /\ HasField(doc.items[1], <<"a", "n", "g", "l", "e">>)
    /\ FieldText(doc.items[1], <<"a", "n", "g", "l", "e">>) = <<"3", "0", ".", "0">>
    /\ mapResult = Err(InvalidType("float"))

\* a String where a Float is due
C21_WitnessString == FromStrCall /\ mapResult = Err(InvalidType("string"))

NameNamespace == <<"n", "a", "m", "e", "s", "p", "a", "c", "e">>

NameVersion == <<"v", "e", "r", "s", "i", "o", "n">>

\* the document assigns the key at the top level
Assigns(key) == \E i \in 1..Len(doc.items) : IsAssign(doc.items[i]) /\ doc.items[i][1] = key

\* C22: decoding a text without a top-level namespace assignment fails
\* with MissingField("namespace"), a text without a top-level version
\* assignment with MissingField("version"); no Map is returned.
C22_NamespaceAndVersion ==
    FromStrCall =>
        /\ ~Assigns(NameNamespace) => mapResult = Err(MissingField(NameNamespace))
        /\ (Assigns(NameNamespace) /\ ~Assigns(NameVersion)) =>
               mapResult = Err(MissingField(NameVersion))

\* a Map is returned for a text that assigns neither namespace nor version
C22_NoNamespace ==
    /\ Decoded
    /\ ~Assigns(NameNamespace)
    /\ ~Assigns(NameVersion)
    /\ Len(doc.items) = 2
    /\ mapResult.val.things # <<>>

\* no decode fails for the lack of either: MissingField names a field of a
\* thing or of a vertex only, and a text that assigns both keeps them in the
\* extras, as it keeps any other key
C22_NeverRequired ==
    FromStrCall =>
        /\ ~mapResult.ok =>
               mapResult.err \notin {MissingField(NameNamespace), MissingField(NameVersion)}
        /\ (mapResult.ok /\ Assigns(NameNamespace)) =>
               NameNamespace \in DOMAIN mapResult.val.extras

\* a Map returned for a text that assigns namespace and version
C22_WitnessBoth == Decoded /\ Assigns(NameNamespace) /\ Assigns(NameVersion)

\* the items of the document that are thing (vertex) blocks, in the order
\* of the source
ThingItems == SelectSeq(doc.items, IsThing)

VertexItems == SelectSeq(doc.items, IsVertex)

\* the names of the fields a Thing keeps in fields of its own
ThingOwn == {ThingFields[j].name : j \in DOMAIN ThingFields}

\* the names of the fields of a block
FieldNames(item) == {Fields(item)[j].key : j \in DOMAIN Fields(item)}

\* the thing t holds what the block item says
ThingHolds(t, item) ==
    /\ t.x = Lit(FieldText(item, <<"x">>))
    /\ t.y = Lit(FieldText(item, <<"y">>))
    /\ t.angle = Lit(FieldText(item, <<"a", "n", "g", "l", "e">>))
    /\ t.kind = Lit(FieldText(item, <<"t", "y", "p", "e">>))
    /\ t.height.some = HasField(item, <<"h", "e", "i", "g", "h", "t">>)
    /\ t.height.some => t.height.val = Lit(FieldText(item, <<"h", "e", "i", "g", "h", "t">>))
    /\ DOMAIN t.extras = FieldNames(item) \ ThingOwn
    /\ \A key \in DOMAIN t.extras : t.extras[key] = Lit(FieldText(item, key))

\* C23: in a decoded Map the Thing of every thing block has the x, y, angle
\* and type (as kind) the block gives, a height exactly when the block has
\* one, and as extras exactly the other fields of the block with their
\* values. A block that lacks a mandatory field, when that is the first
\* failure of the text, fails the decode with MissingField naming the field.
C23_Thing ==
    FromStrCall =>
        /\ mapResult.ok =>
               /\ Len(mapResult.val.things) = Len(ThingItems)
               /\ \A k \in 1..Len(ThingItems) : ThingHolds(mapResult.val.things[k], ThingItems[k])
        /\ (/\ Readable
            /\ \E i \in 1..Len(doc.items) : Faulty(doc.items[i])
            /\ Lacking(FirstFaulty, FirstFault(FirstFaulty))) =>
               mapResult = Err(MissingField(FirstFault(FirstFaulty).name))
        /\ (Readable /\ \A i \in 1..Len(doc.items) : ~Faulty(doc.items[i])) => mapResult.ok

\* the thing of the example: no height, one extra
C23_Witness ==
    /\ Decoded
    /\ Len(ThingItems) = 1
    /\ mapResult.val.things[1].x = ValueFloat(FALSE, <<"4", "3">>, 0)
    /\ mapResult.val.things[1].y = ValueFloat(FALSE, <<"4", "5", "9">>, 0)
    /\ mapResult.val.things[1].angle = ValueInteger(30)
    /\ mapResult.val.things[1].kind = ValueInteger(1)
    /\ ~mapResult.val.things[1].height.some
    /\ DOMAIN mapResult.val.things[1].extras = {<<"a", "r", "g", "0">>}
    /\ mapResult.val.things[1].extras[<<"a", "r", "g", "0">>] = ValueString(<<"W", "A", "D", "S", "U", "P">>)

\* a thing with a height, fields out of order, an extra written twice
C23_WitnessHeight ==
    /\ Decoded
    /\ Len(ThingItems) = 1
    /\ mapResult.val.things[1].height.some
    /\ mapResult.val.things[1].height.val = ValueFloat(FALSE, <<"8">>, 0)
    /\ mapResult.val.things[1].extras[<<"a", "r", "g", "0">>] = ValueInteger(8)

\* a thing without type
C23_WitnessMissing ==
    /\ FromStrCall
    /\ Len(ThingItems) = 1
    /\ mapResult = Err(MissingField(<<"t", "y", "p", "e">>))

\* a thing without x and y: the first one is named
C23_WitnessMissingFirst ==
    /\ FromStrCall
    /\ Len(ThingItems) = 1
    /\ ~HasField(ThingItems[1], <<"y">>)
    /\ mapResult = Err(MissingField(<<"x">>))

\* the top-level assignments of the document, in the order of the source
AssignItems == SelectSeq(doc.items, IsAssign)

\* the text of the value last assigned to the key at the top level
LastAssigned(key) ==
    AssignItems[CHOOSE i \in 1..Len(AssignItems) :
                    /\ AssignItems[i][1] = key
                    /\ \A k \in (i + 1)..Len(AssignItems) : AssignItems[k][1] # key][3]

\* C24: in a decoded Map every key assigned at the top level is a key of
\* the top-level extras, with the value of its last assignment in source
\* order; the extras hold nothing else of the assignments, and an
\* assignment adds no element to things or vertices.
C24_TopLevelExtras ==
    Decoded =>
        /\ \A i \in 1..Len(AssignItems) :
               /\ AssignItems[i][1] \in DOMAIN mapResult.val.extras
               /\ mapResult.val.extras[AssignItems[i][1]] = Lit(LastAssigned(AssignItems[i][1]))
        /\ DOMAIN mapResult.val.extras = {AssignItems[i][1] : i \in 1..Len(AssignItems)}
        /\ Len(mapResult.val.things) + Len(mapResult.val.vertices)
               = Len(doc.items) - Len(AssignItems) - Len(SelectSeq(doc.items, LAMBDA it : ~IsAssign(it) /\ ~IsThing(it) /\ ~IsVertex(it)))

\* sillykey = 7; alone
C24_Witness ==
    /\ Decoded
    /\ Len(doc.items) = 1
    /\ mapResult.val.extras = [key \in {<<"s", "i", "l", "l", "y", "k", "e", "y">>} |-> ValueInteger(7)]
    /\ mapResult.val.things = <<>>
    /\ mapResult.val.vertices = <<>>

\* sillykey = 7; sillykey = 8; the last one stays
C24_WitnessTwice ==
    /\ Decoded
    /\ Len(AssignItems) = 2
    /\ AssignItems[1][3] = <<"7">>
    /\ AssignItems[2][3] = <<"8">>
    /\ mapResult.val.extras = [key \in {<<"s", "i", "l", "l", "y", "k", "e", "y">>} |-> ValueInteger(8)]

\* sillykey = 8; sillykey = 7; the other order
C24_WitnessTwiceBack ==
    /\ Decoded
    /\ Len(AssignItems) = 2
    /\ AssignItems[1][3] = <<"8">>
    /\ AssignItems[2][3] = <<"7">>
    /\ mapResult.val.extras[<<"s", "i", "l", "l", "y", "k", "e", "y">>] = ValueInteger(7)

\* the vertex v holds what the block item says
VertexHolds(v, item) ==
    /\ v.x = Lit(FieldText(item, <<"x">>))
    /\ v.y = Lit(FieldText(item, <<"y">>))
    /\ DOMAIN v.extras = FieldNames(item) \ {<<"x">>, <<"y">>}
    /\ \A key \in DOMAIN v.extras : v.extras[key] = Lit(FieldText(item, key))

\* C25: in a decoded Map things has one element for each thing block and
\* vertices one for each vertex block of the text, and the k-th element is
\* the record of the k-th such block in source order, blocks that repeat
\* included.
C25_SourceOrder ==
    Decoded =>
        /\ Len(mapResult.val.things) = Len(ThingItems)
        /\ \A k \in 1..Len(ThingItems) : ThingHolds(mapResult.val.things[k], ThingItems[k])
        /\ Len(mapResult.val.vertices) = Len(VertexItems)
        /\ \A k \in 1..Len(VertexItems) : VertexHolds(mapResult.val.vertices[k], VertexItems[k])

\* two different things
C25_Witness ==
    /\ Decoded
    /\ Len(mapResult.val.things) = 2
    /\ mapResult.val.things[1].kind = ValueInteger(1)
    /\ mapResult.val.things[2].kind = ValueInteger(2)

\* the same two, the other way round
C25_WitnessBack ==
    /\ Decoded
    /\ Len(mapResult.val.things) = 2
    /\ mapResult.val.things[1].kind = ValueInteger(2)
    /\ mapResult.val.things[2].kind = ValueInteger(1)

\* the same block twice
C25_WitnessDuplicate ==
    /\ Decoded
    /\ Len(mapResult.val.things) = 2
    /\ mapResult.val.things[1] = mapResult.val.things[2]

\* two different vertices
C25_WitnessVertices ==
    /\ Decoded
    /\ Len(mapResult.val.vertices) = 2
    /\ mapResult.val.vertices[1].x # mapResult.val.vertices[2].x

\* the block kinds with a sequence of their own
RecognizedKinds ==
    {<<"t", "h", "i", "n", "g">>, <<"v", "e", "r", "t", "e", "x">>,
     <<"l", "i", "n", "e", "d", "e", "f">>, <<"s", "i", "d", "e", "d", "e", "f">>,
     <<"s", "e", "c", "t", "o", "r">>}

\* C26: no top-level item of a decoded text is dropped: every top-level
\* key that is not a recognized block kind, be it assigned or followed by a
\* block, is a key of the top-level extras of the Map.
C26_NothingDropped ==
    Decoded =>
        \A i \in 1..Len(doc.items) :
            doc.items[i][1] \notin RecognizedKinds => doc.items[i][1] \in DOMAIN mapResult.val.extras

\* foo {} next to an assignment: a Map without a trace of foo
C26_BlockDropped ==
    /\ Decoded
    /\ Len(doc.items) = 2
    /\ IsBlock(doc.items[1])
    /\ doc.items[1][1] = <<"f", "o", "o">>
    /\ IsAssign(doc.items[2])
    /\ DOMAIN mapResult.val.extras = {doc.items[2][1]}
    /\ mapResult.val.things = <<>>
    /\ mapResult.val.vertices = <<>>

\* a linedef block is dropped as well: the Map has no place for it
C26_LinedefDropped ==
    /\ Decoded
    /\ Len(doc.items) = 1
    /\ doc.items[1][1] = <<"l", "i", "n", "e", "d", "e", "f">>
    /\ mapResult.val = MapDefault

\* what is kept: every assignment, every thing and every vertex; a block of
\* any other kind leaves the Map as it was
C26_OnlyBlocksDropped ==
    Decoded =>
        /\ \A i \in 1..Len(doc.items) :
               IsAssign(doc.items[i]) => doc.items[i][1] \in DOMAIN mapResult.val.extras
        /\ Len(mapResult.val.things) = Len(ThingItems)
        /\ Len(mapResult.val.vertices) = Len(VertexItems)

PreprocessCall == mapCall = "preprocess"

\* a comment starts at position q of the line: a // with an even number of
\* quotes before it, that is outside every string
CommentAt(line, q) ==
    /\ line[q] = "/"
    /\ line[q + 1] = "/"
    /\ Cardinality({ r \in 1..(q - 1) : line[r] = Quote }) % 2 = 0

\* the line without its comment
Uncommented(line) ==
    IF \E q \in 1..(Len(line) - 1) : CommentAt(line, q)
    THEN SubSeq(line, 1, (CHOOSE q \in 1..(Len(line) - 1) :
                              /\ CommentAt(line, q)
                              /\ \A r \in 1..(q - 1) : ~CommentAt(line, r)) - 1)
    ELSE line

\* the first // of the line, if it has one, starts a comment
FirstIsComment(line) ==
    \A q \in 1..(Len(line) - 1) :
        (/\ line[q] = "/"
         /\ line[q + 1] = "/"
         /\ \A r \in 1..(q - 1) : ~(line[r] = "/" /\ line[r + 1] = "/")) => CommentAt(line, q)

\* the position of the first line feed of the text t
FirstLineFeed(t) == CHOOSE n \in 1..Len(t) : t[n] = "\n" /\ \A r \in 1..(n - 1) : t[r] # "\n"

\* the lines of the text t without their comments, a line feed between
\* every two
RECURSIVE UncommentedLines(_)
UncommentedLines(t) ==
    IF \A p \in 1..Len(t) : t[p] # "\n" THEN Uncommented(t)
    ELSE Uncommented(SubSeq(t, 1, FirstLineFeed(t) - 1)) \o <<"\n">>
             \o UncommentedLines(SubSeq(t, FirstLineFeed(t) + 1, Len(t)))

\* in every line of the text t the first // starts a comment
RECURSIVE SlashesOutside(_)
SlashesOutside(t) ==
    IF \A p \in 1..Len(t) : t[p] # "\n" THEN FirstIsComment(t)
    ELSE /\ FirstIsComment(SubSeq(t, 1, FirstLineFeed(t) - 1))
         /\ SlashesOutside(SubSeq(t, FirstLineFeed(t) + 1, Len(t)))

\* C27: preprocessing takes from every line the suffix that starts at the
\* first // of the line that introduces a comment and nothing else: a //
\* inside a quoted string stays, a line without // is unchanged, the lines
\* stay as many and in their order. (The line feed the code ends the text
\* with is granted.)
C27_Preprocess ==
    PreprocessCall => mapResult = Ok(UncommentedLines(mapText) \o <<"\n">>)

\* "//" as the value of a string: the string is cut after its opening quote
C27_CutInString ==
    /\ PreprocessCall
    /\ mapText = <<"a", Quote, "/", "/", Quote>>
    /\ mapResult = Ok(<<"a", Quote, "\n">>)

\* a comment after a string is cut, the string stays
C27_WitnessAfterString ==
    /\ PreprocessCall
    /\ mapText = <<Quote, "a", Quote, "/", "/", "a">>
    /\ mapResult = Ok(<<Quote, "a", Quote, "\n">>)

\* lines with and without a comment
C27_WitnessLines ==
    /\ PreprocessCall
    /\ mapText = <<"a", "/", "/", "a", "\n", "/">>
    /\ mapResult = Ok(<<"a", "\n", "/", "\n">>)

\* when no // of the text stands inside a string, the text is returned
\* without its comments
C27_OutsideStrings ==
    (PreprocessCall /\ SlashesOutside(mapText))
        => mapResult = Ok(UncommentedLines(mapText) \o <<"\n">>)

====
